---- MODULE Spec2Model ----
(***************************************************************************)
(* Boundary-inset swath generator of tjgolubi/ekman2                        *)
(* (src/src/BoundarySwaths.cpp).                                            *)
(*                                                                         *)
(* Planar points are pairs <<x, y>> of integers.  A ring is a sequence of   *)
(* points; C++ indices are 0-based, TLA+ sequences 1-based, so ring[i] of   *)
(* the code is ring[i+1] here.  Corner lists hold the code's 0-based        *)
(* indices as values.                                                      *)
(***************************************************************************)
EXTENDS Integers, Sequences, FiniteSets, TLC

\* ------------------------------------------------------------------ bounds
\* Longest closed ring (closing vertex included) explored at ring level.
MaxRingLen == 5
\* Calls of BoundarySwaths made one after the other with the same arguments.
MaxCalls == 2
\* Longest original ring (closing vertex included) handed to
\* MapCornersToOriginal on its own.
MaxOrigLen == 4

\* The longest guidance path written and the longest LSG read on its own.
MaxPathLen == 3

\* --------------------------------------------------------------- state
VARIABLES
  \* AdjustCorners / ExtractSwaths called on their own
  ring,      \* xy::Ring handed to AdjustCorners / ExtractSwaths
  corners,   \* CornerVec that goes with it
  ring0,     \* the ring as it was before AdjustCorners
  corners0,  \* the corner list as it was before AdjustCorners
  swaths,    \* xy::MultiPath returned by ExtractSwaths
  stage,     \* "input", "adjusted", "extracted", "bug"
  \* BoundarySwaths(poly_in, offset, simplifyTol), planar overload
  pc,          \* "call", "inset", "simplify", "polys", "done", "error", "bug"
  poly_in,     \* xy::Polygon argument
  offset,      \* Distance argument, millimetres
  simplifyTol, \* Distance argument, millimetres
  inset_mp,    \* result of ComputeInset
  simp_mp,     \* result of Simplify; its rings are rotated by FindCorners
  cvs,         \* the cv of every polygon of the for loop so far
  linesVec,    \* the output list
  err,         \* what() of the exception, or the assertion that failed
  poly_in0,    \* the caller's polygon as it was when the call was made
  callNo,      \* which call with these arguments this is
  firstOut,    \* how the first call ended and what it returned
  \* Simplify(geo, tolerance) called on its own
  geoKind,     \* "Ring", "Polygon" or "MultiPolygon"
  geoArg,      \* the geometry argument
  tolerance,   \* millimetres
  simpOut,     \* outcome of the call, NoResult before it
  \* reading a .zip input: FarmDb::ReadZip (FarmZip.cpp) and the ReadZip of
  \* FarmDb::ReadXml (FarmXml.cpp)
  zreader,     \* which of the two readers runs
  zenv,        \* the archive and what the file system and libzip answer
  zpc,         \* position in the reader
  zlib,        \* libzip: the zip_t, every zip_file_t handed out, zip_fread calls
  zfiles,      \* the ZipArchive::File locals of FarmDb::ReadZip
  ztodo,       \* the ExtractEntryToFile calls still to make
  ztmp,        \* the temp directory: "none", "made", "removed"
  zres,        \* how the reader ended
  \* FarmDb::ReadXml on a parsed document, then FarmDb::writeXml
  xdoc,        \* the document read
  xpc,         \* "root", "loop", "read", "written", "read back", "error"
  xi,          \* the child of the root the loop is at
  xdb,         \* the FarmDb being built, with custDb, farmDb and fieldDb
  xerr,        \* what() of the exception thrown
  xout,        \* the document CreateDoc made
  xpolys,      \* every PLN given to ReadBoundary and what became of it
  xback,       \* what ReadXml made of the document written
  \* FarmDb::ReadShp
  senv,        \* the shapefile: what Shapelib answers about it
  spc,         \* "open", "loop", "read", "error"
  si,          \* the record the loop is at
  sdb,         \* the FarmDb being built, with the three lookup maps
  serr,        \* what() of the exception thrown
  shandles,    \* the Shapelib handles that are open
  \* InsetXml
  cargs,       \* the command line
  cgsl,        \* what a failed gsl_Expects does in this build
  cpc,         \* "ParseArgs", "ReadXml", "inset", "write", "exit", "terminated"
  cstatus,     \* the exit status, -1 while the process runs
  cfailed,     \* which of reading, insetting and writing failed
  chasParts,   \* whether the database read has a field with a part
  cwritten,    \* whether the output file was written
  \* MapCornersToOriginal / FindCornersSimp called on their own
  mcall,       \* which of the two is called
  morig,       \* orig, the original ring
  msimp,       \* simp, or the ring argument of FindCornersSimp
  msc,         \* simp_corners
  mtrace,      \* i0 and best_i of every pass of the outer loop
  mout,        \* the CornerVec returned
  mpc,         \* "call", "returned", "bug"
  \* WriteSwathPath / ReadSwathPath called on their own
  ppath,       \* the Path given to WriteSwathPath
  plsg,        \* the LSG element: written, or given to ReadSwathPath
  pread,       \* what ReadSwathPath returned or threw
  ppc          \* "path", "written", "lsg", "read back", "read"

ringVars == <<ring, corners, ring0, corners0, swaths, stage>>
callVars == <<poly_in0, callNo, firstOut>>
pipeVars == <<pc, poly_in, offset, simplifyTol, inset_mp, simp_mp, cvs, linesVec, err,
             callVars>>
simpVars == <<geoKind, geoArg, tolerance, simpOut>>
zipVars == <<zreader, zenv, zpc, zlib, zfiles, ztodo, ztmp, zres>>
xmlVars == <<xdoc, xpc, xi, xdb, xerr, xout, xpolys, xback>>
shpVars == <<senv, spc, si, sdb, serr, shandles>>
\* The variables of the machines defined after the first three.
cliVars == <<cargs, cgsl, cpc, cstatus, cfailed, chasParts, cwritten>>
mapVars == <<mcall, morig, msimp, msc, mtrace, mout, mpc>>
pathVars == <<ppath, plsg, pread, ppc>>
laterVars == <<zipVars, xmlVars, shpVars, cliVars, mapVars, pathVars>>
\* What a machine leaves alone: the variables of all the others.
notZipVars == <<ringVars, pipeVars, simpVars, xmlVars, shpVars, cliVars, mapVars, pathVars>>
notXmlVars == <<ringVars, pipeVars, simpVars, zipVars, shpVars, cliVars, mapVars, pathVars>>
notShpVars == <<ringVars, pipeVars, simpVars, zipVars, xmlVars, cliVars, mapVars, pathVars>>
notCliVars == <<ringVars, pipeVars, simpVars, zipVars, xmlVars, shpVars, mapVars, pathVars>>
notMapVars == <<ringVars, pipeVars, simpVars, zipVars, xmlVars, shpVars, cliVars, pathVars>>
notPathVars == <<ringVars, pipeVars, simpVars, zipVars, xmlVars, shpVars, cliVars, mapVars>>
vars == <<ringVars, pipeVars, simpVars, laterVars>>

\* geom::test p0, p1, p2 and the fourth vertex of their rectangle.
TestPoints == {<<0, 0>>, <<3, 0>>, <<3, 4>>, <<0, 4>>}

Dist2(a, b) == (b[1] - a[1]) * (b[1] - a[1]) + (b[2] - a[2]) * (b[2] - a[2])

PopBack(s) == SubSeq(s, 1, Len(s) - 1)

RECURSIVE Dedup(_)
\* Removes every vertex equal to the vertex before it.
Dedup(s) ==
  IF Len(s) <= 1 THEN s
  ELSE LET d == Dedup(PopBack(s))
       IN IF s[Len(s)] = s[Len(s) - 1] THEN d ELSE Append(d, s[Len(s)])

\* std::rotate(s.begin(), s.begin() + mid, s.end())
Rotate(s, mid) == SubSeq(s, mid + 1, Len(s)) \o SubSeq(s, 1, mid)

\* for (auto& c: corners) c += d;
Shift(cs, d) == [k \in 1..Len(cs) |-> cs[k] + d]

RECURSIVE SortedSeq(_)
\* The ascending sequence of the members of a finite set of integers.
SortedSeq(S) ==
  IF S = {} THEN <<>>
  ELSE LET m == CHOOSE x \in S : \A y \in S : x <= y
       IN <<m>> \o SortedSeq(S \ {m})

RECURSIVE FarthestScan(_, _, _, _)
\* The while loop of AdjustCorners: p is the 0-based position being looked
\* at, best the position of farthest_p, bestD its distance to *begin.
\* Dist is compared through its square, which orders distances the same.
FarthestScan(r, p, best, bestD) ==
  IF p = Len(r) THEN best
  ELSE LET d == Dist2(r[p + 1], r[1])
       IN IF d <= bestD THEN FarthestScan(r, p + 1, best, bestD)
          ELSE FarthestScan(r, p + 1, p, d)

RECURSIVE FarthestScanLast(_, _, _, _)
FarthestScanLast(r, p, best, bestD) ==
  IF p = Len(r) THEN best
  ELSE LET d == Dist2(r[p + 1], r[1])
       IN IF d < bestD THEN FarthestScanLast(r, p + 1, best, bestD)
          ELSE FarthestScanLast(r, p + 1, p, d)

\* Mutant of Farthest: "if (d < farthest_d) continue", a later vertex at the
\* same distance replaces the earlier one.
FarthestLast(r) == FarthestScanLast(r, 2, 1, Dist2(r[2], r[1]))

Farthest(r) == FarthestScan(r, 2, 1, Dist2(r[2], r[1]))

\* Mutant of RotateToCorner: the backward branch forgets corners.pop_back().
RotateToCornerNoPop(r, cs) ==
  IF cs[1] = 0 THEN [ring |-> r, corners |-> cs]
  ELSE LET shift1 == cs[1]
           shift2 == cs[Len(cs)] - Len(r)
           mid    == IF shift1 < -shift2 THEN shift1 ELSE shift2
       IN IF mid >= 0
          THEN [ring |-> Rotate(r, mid), corners |-> Shift(cs, -mid)]
          ELSE [ring    |-> Rotate(r, Len(r) + mid),
                corners |-> <<0>> \o Shift(cs, -mid)]

\* Mutant of RotateToCorner: the forward branch rotates the ring and leaves
\* the corner list as it is.
RotateToCornerKeepIndices(r, cs) ==
  IF cs[1] = 0 THEN [ring |-> r, corners |-> cs]
  ELSE LET shift1 == cs[1]
           shift2 == cs[Len(cs)] - Len(r)
           mid    == IF shift1 < -shift2 THEN shift1 ELSE shift2
       IN IF mid >= 0
          THEN [ring |-> Rotate(r, mid), corners |-> cs]
          ELSE [ring    |-> Rotate(r, Len(r) + mid),
                corners |-> <<0>> \o Shift(PopBack(cs), -mid)]

\* Mutant of RotateToCorner: the ring is always rotated forward, to
\* corners.front().
RotateToCornerForward(r, cs) ==
  IF cs[1] = 0 \/ cs[1] > Len(r) THEN [ring |-> r, corners |-> cs]
  ELSE [ring |-> Rotate(r, cs[1]), corners |-> Shift(cs, -cs[1])]

\* AdjustCorners, the block "if (corners.front() != 0)"; r is the ring with
\* its closing vertex already removed.
RotateToCorner(r, cs) ==
  IF cs[1] = 0 THEN [ring |-> r, corners |-> cs]
  ELSE LET shift1 == cs[1]
           shift2 == cs[Len(cs)] - Len(r)
           mid    == IF shift1 < -shift2 THEN shift1 ELSE shift2
       IN IF mid >= 0
          THEN [ring |-> Rotate(r, mid), corners |-> Shift(cs, -mid)]
          ELSE [ring    |-> Rotate(r, Len(r) + mid),
                corners |-> <<0>> \o Shift(PopBack(cs), -mid)]

\* Mutant of AddFarthest: never adds the second corner.
AddFarthestNever(r, cs) == cs

\* AdjustCorners, the block "if (corners.size() < 2)".
AddFarthest(r, cs) ==
  IF Len(cs) < 2 THEN Append(cs, Farthest(r)) ELSE cs

AdjustCorners(rg, cs) ==
  LET r   == PopBack(rg)
      c1  == IF cs = <<>> THEN <<0>> ELSE cs
      rot == RotateToCorner(r, c1)
  IN [ring    |-> Append(rot.ring, rot.ring[1]),
      corners |-> AddFarthest(rot.ring, rot.corners)]

Bug == [status |-> "bug", swaths |-> <<>>]

RECURSIVE ExtractLoopLate(_, _, _, _, _)
\* Mutant of ExtractLoop: the final path starts one vertex after `last`.
ExtractLoopLate(rg, cs, i, last, acc) ==
  IF i = Len(cs) - 1
  THEN [status |-> "ok", swaths |-> Append(acc, SubSeq(rg, last + 2, Len(rg)))]
  ELSE LET idx == cs[i + 2]
       IN IF ~(idx < Len(rg)) THEN Bug
          ELSE IF last > idx + 1 THEN [status |-> "ub", swaths |-> <<>>]
          ELSE ExtractLoopLate(rg, cs, i + 1, idx,
                               Append(acc, SubSeq(rg, last + 1, idx + 1)))

RECURSIVE ExtractLoop(_, _, _, _, _)
\* The for loop of ExtractSwaths and the final emplace_back; i is the loop
\* variable, last the 0-based position of the iterator `last`.
ExtractLoop(rg, cs, i, last, acc) ==
  IF i = Len(cs) - 1
  THEN [status |-> "ok", swaths |-> Append(acc, SubSeq(rg, last + 1, Len(rg)))]
  ELSE LET idx == cs[i + 2]
       IN IF ~(idx < Len(rg)) THEN Bug
          ELSE IF last > idx + 1 THEN [status |-> "ub", swaths |-> <<>>]
          ELSE ExtractLoop(rg, cs, i + 1, idx,
                           Append(acc, SubSeq(rg, last + 1, idx + 1)))

\* Mutant of ExtractSwaths: the end iterator is not advanced past `last`
\* (the "++ptr" is lost), so a path stops one vertex short.
ExtractSwathsNoInc(rg, cs) ==
  IF ~(Len(cs) > 1 /\ cs[1] = 0) THEN Bug
  ELSE IF ~(cs[2] < Len(rg)) THEN Bug
  ELSE ExtractLoop(rg, cs, 1, cs[2], <<SubSeq(rg, 1, cs[2])>>)

ExtractSwaths(rg, cs) ==
  IF ~(Len(cs) > 1 /\ cs[1] = 0) THEN Bug
  ELSE IF ~(cs[2] < Len(rg)) THEN Bug
  ELSE ExtractLoop(rg, cs, 1, cs[2], <<SubSeq(rg, 1, cs[2] + 1)>>)

\* ------------------------------------------------------- planar geometry
\* Coordinates are whole metres; tolerances and offsets are millimetres.
Abs(x) == IF x < 0 THEN -x ELSE x

RECURSIVE Gcd(_, _)
Gcd(a, b) == IF b = 0 THEN a ELSE Gcd(b, a % b)

RECURSIVE Pow2(_)
Pow2(k) == IF k = 0 THEN 1 ELSE 2 * Pow2(k - 1)

RECURSIVE FracLeq(_, _, _, _)
\* n1/d1 <= n2/d2 for naturals with d1, d2 > 0, without multiplying
\* (continued-fraction comparison), so that no product leaves 32 bits.
FracLeq(n1, d1, n2, d2) ==
  LET q1 == n1 \div d1
      q2 == n2 \div d2
      r1 == n1 % d1
      r2 == n2 % d2
  IN IF q1 # q2 THEN q1 < q2
     ELSE IF r1 = 0 THEN TRUE
     ELSE IF r2 = 0 THEN FALSE
     ELSE FracLeq(d2, r2, d1, r1)

\* Vec: operator-(Pt, Pt), dot, cross
Sub(p, q) == <<p[1] - q[1], p[2] - q[2]>>
dot(u, v) == u[1] * v[1] + u[2] * v[2]
cross(u, v) == u[1] * v[2] - u[2] * v[1]

\* Squared distance of point p to segment a-b as a fraction <<num, den>>
\* (boost's projected-point strategy behind ggl::simplify).
SegDist2(p, a, b) ==
  LET ab == Sub(b, a)
      ap == Sub(p, a)
      l2 == dot(ab, ab)
      t  == dot(ap, ab)
  IN IF l2 = 0 \/ t <= 0 THEN <<Dist2(a, p), 1>>
     ELSE IF t >= l2 THEN <<Dist2(b, p), 1>>
     ELSE <<cross(ab, ap) * cross(ab, ap), l2>>

FLess(f, g) == ~FracLeq(g[1], g[2], f[1], f[2])

\* A tolerance of tolMm millimetres halved k times, squared, in square
\* metres, as a fraction in lowest terms.
Tol2(tolMm, k) ==
  LET den == 1000 * Pow2(k)
      g   == Gcd(tolMm, den)
  IN <<(tolMm \div g) * (tolMm \div g), (den \div g) * (den \div g)>>

\* ------------------------------------------ ggl::simplify (Douglas-Peucker)
\* Squared distances to the chord pts[i]-pts[j] of the vertices strictly
\* between positions i and j.
ChordDists(pts, i, j) ==
  [m \in (i + 1)..(j - 1) |-> SegDist2(pts[m], pts[i], pts[j])]

\* The first position at which d is largest.
FirstMax(d) ==
  CHOOSE k \in DOMAIN d :
    /\ \A m \in DOMAIN d : m < k => FLess(d[m], d[k])
    /\ \A m \in DOMAIN d : m > k => ~FLess(d[k], d[m])

RECURSIVE DPKeep(_, _, _, _)
RECURSIVE DPSplit(_, _, _, _, _, _)
\* Positions strictly between i and j that Douglas-Peucker keeps: the
\* farthest vertex k when it lies beyond the tolerance, then both halves.
DPSplit(pts, i, j, tol2, d, k) ==
  IF FLess(tol2, d[k])
  THEN DPKeep(pts, i, k, tol2) \cup {k} \cup DPKeep(pts, k, j, tol2)
  ELSE {}

DPFarthest(pts, i, j, tol2, d) == DPSplit(pts, i, j, tol2, d, FirstMax(d))

DPKeep(pts, i, j, tol2) ==
  IF j <= i + 1 THEN {}
  ELSE DPFarthest(pts, i, j, tol2, ChordDists(pts, i, j))

\* The vertices of pts at the positions listed in keep.
Pick(pts, keep) == [k \in 1..Len(keep) |-> pts[keep[k]]]

DouglasPeucker(pts, tol2) ==
  IF Len(pts) <= 2 THEN pts
  ELSE Pick(pts, SortedSeq({1, Len(pts)} \cup DPKeep(pts, 1, Len(pts), tol2)))

RECURSIVE Shoelace(_, _)
\* Twice the signed area of the ring up to position k (positive when the
\* ring runs counter-clockwise).
Shoelace(rg, k) ==
  IF k <= 1 THEN 0
  ELSE Shoelace(rg, k - 1) + cross(rg[k - 1], rg[k])

Sign(x) == IF x > 0 THEN 1 ELSE IF x < 0 THEN -1 ELSE 0

AreaSign(rg) == Sign(Shoelace(rg, Len(rg)))

\* A closed ring restarted at its vertex at position s.
CloseRing(open) == Append(open, open[1])

RingFrom(rg, s) == CloseRing(Rotate(PopBack(rg), s - 1))

\* get_opposite: position of the first vertex of the ring that is farthest
\* from the vertex at position p; the closing vertex counts as the first.
Opposite(rg, p) ==
  CHOOSE k \in 1..(Len(rg) - 1) :
    /\ \A m \in 1..(k - 1) : Dist2(rg[m], rg[p]) < Dist2(rg[k], rg[p])
    /\ \A m \in (k + 1)..(Len(rg) - 1) : Dist2(rg[m], rg[p]) <= Dist2(rg[k], rg[p])

\* The result of one try is cleared when the sign of its area is no longer
\* that of the input.
KeepIfSameSign(rg, out) == IF AreaSign(out) = AreaSign(rg) THEN out ELSE <<>>

\* One try of simplify_ring: the ring restarted at position s and
\* simplified by Douglas-Peucker.
SimplifyRingFrom(rg, s, tol2) ==
  KeepIfSameSign(rg, DouglasPeucker(RingFrom(rg, s), tol2))

\* The first try starts at the vertex opposite the closing point; when that
\* try is cleared the library may give up or try up to three other
\* starting vertices, any of which may be the one that is returned.
SimplifyTries(tries, s0) ==
  IF tries[s0] # <<>> THEN {tries[s0]}
  ELSE {<<>>} \cup {tries[s] : s \in DOMAIN tries}

\* ggl::simplify of one ring.
SimplifyRing(rg, tol2) ==
  IF Len(rg) < 2 THEN {rg}
  ELSE SimplifyTries([s \in 1..(Len(rg) - 1) |-> SimplifyRingFrom(rg, s, tol2)],
                     Opposite(rg, 1))

RECURSIVE SeqProduct(_)
\* All sequences that take their k-th element from the k-th set.
SeqProduct(sets) ==
  IF sets = <<>> THEN {<<>>}
  ELSE {<<h>> \o t : h \in Head(sets), t \in SeqProduct(Tail(sets))}

SelectNonEmpty(sq) == SelectSeq(sq, LAMBDA x : x # <<>>)

\* A polygon from its simplified rings: interior rings that were simplified
\* away are left out.
PolygonOf(rs) == [outer |-> Head(rs), inners |-> SelectNonEmpty(Tail(rs))]

\* Polygons whose exterior ring was simplified away are left out.
SelectWithOuter(mp) == SelectSeq(mp, LAMBDA q : q.outer # <<>>)

\* ggl::simplify of a multipolygon: every ring of every polygon on its own.
SimplifyMultiPolygon(mp, tol2) ==
  {SelectWithOuter([k \in 1..Len(mp) |-> PolygonOf(rss[k])]) :
     rss \in SeqProduct([k \in 1..Len(mp) |->
               SeqProduct([m \in 1..(1 + Len(mp[k].inners)) |->
                  SimplifyRing((<<mp[k].outer>> \o mp[k].inners)[m], tol2)])])}

\* A ring or a polygon as the multipolygon that has the same rings.
AsMultiPolygon(kind, g) ==
  CASE kind = "Ring"         -> <<[outer |-> g, inners |-> <<>>]>>
    [] kind = "Polygon"      -> <<g>>
    [] kind = "MultiPolygon" -> g

FromMultiPolygon(kind, mp) ==
  CASE kind = "Ring"         -> IF mp = <<>> THEN <<>> ELSE mp[1].outer
    [] kind = "Polygon"      -> IF mp = <<>> THEN [outer |-> <<>>, inners |-> <<>>]
                                ELSE mp[1]
    [] kind = "MultiPolygon" -> mp

\* --------------------------------------------------------- ggl::is_valid
\* The verdict is one of boost's validity_failure_type values.
\* The ring's vertices without the closing one and without repeats.
Unique(rg) ==
  LET d == Dedup(rg)
  IN IF Len(d) >= 2 /\ d[1] = d[Len(d)] THEN PopBack(d) ELSE d

CycNext(k, n) == IF k = n THEN 1 ELSE k + 1

\* Edge k of the open vertex list u, as a vector.
EdgeVec(u, k) == Sub(u[CycNext(k, Len(u))], u[k])

TurnsBack(a, b) == cross(a, b) = 0 /\ dot(a, b) < 0

SpikesIn(u) ==
  /\ Len(u) >= 2
  /\ \E k \in 1..Len(u) : TurnsBack(EdgeVec(u, k), EdgeVec(u, CycNext(k, Len(u))))

\* A vertex where the ring turns back along the edge it came by.
HasSpikes(rg) == SpikesIn(Unique(rg))

\* c lies within the bounding box of a-b (used for collinear points).
InBox(a, b, c) ==
  /\ (IF a[1] < b[1] THEN a[1] ELSE b[1]) <= c[1]
  /\ c[1] <= (IF a[1] < b[1] THEN b[1] ELSE a[1])
  /\ (IF a[2] < b[2] THEN a[2] ELSE b[2]) <= c[2]
  /\ c[2] <= (IF a[2] < b[2] THEN b[2] ELSE a[2])

\* Side of the line a-b on which c lies.
Side(a, b, c) == Sign(cross(Sub(b, a), Sub(c, a)))

MeetBySides(a, b, c, d, o1, o2, o3, o4) ==
  \/ (o1 # o2 /\ o3 # o4)
  \/ (o1 = 0 /\ InBox(a, b, c))
  \/ (o2 = 0 /\ InBox(a, b, d))
  \/ (o3 = 0 /\ InBox(c, d, a))
  \/ (o4 = 0 /\ InBox(c, d, b))

\* Segments a-b and c-d have a point in common.
SegmentsMeet(a, b, c, d) ==
  MeetBySides(a, b, c, d, Side(a, b, c), Side(a, b, d), Side(c, d, a), Side(c, d, b))

SelfIntersectsIn(u) ==
  \E i \in 1..Len(u) : \E j \in (i + 1)..Len(u) :
    /\ CycNext(i, Len(u)) # j
    /\ CycNext(j, Len(u)) # i
    /\ SegmentsMeet(u[i], u[CycNext(i, Len(u))], u[j], u[CycNext(j, Len(u))])

\* Two edges of one ring that are not neighbours meet.
RingSelfIntersects(rg) == SelfIntersectsIn(Unique(rg))

\* An edge of one ring meets an edge of the other.
RingsMeet(r1, r2) ==
  \E i \in 1..(Len(r1) - 1) : \E j \in 1..(Len(r2) - 1) :
    SegmentsMeet(r1[i], r1[i + 1], r2[j], r2[j + 1])

\* p lies strictly inside the ring (crossing number of the ray to the right).
PointInRing(p, rg) ==
  Cardinality({k \in 1..(Len(rg) - 1) :
     LET a  == rg[k]
         b  == rg[k + 1]
         lo == IF a[2] < b[2] THEN a ELSE b
         hi == IF a[2] < b[2] THEN b ELSE a
     IN /\ (a[2] > p[2]) # (b[2] > p[2])
        /\ cross(Sub(hi, lo), Sub(p, lo)) > 0}) % 2 = 1

\* is_valid_ring without the self-intersection test: size, distinct points,
\* spikes, then orientation (exterior rings run clockwise, interior rings
\* counter-clockwise: ggl::model::polygon<Point> keeps boost's defaults).
RingFailure(rg, interior, selfTurns) ==
  IF Len(rg) < 4 THEN "failure_few_points"
  ELSE IF Len(Dedup(rg)) < 4 THEN "failure_wrong_topological_dimension"
  ELSE IF rg[1] # rg[Len(rg)] THEN "failure_not_closed"
  ELSE IF HasSpikes(rg) THEN "failure_spikes"
  ELSE IF selfTurns /\ RingSelfIntersects(rg) THEN "failure_self_intersections"
  ELSE IF AreaSign(rg) # (IF interior THEN 1 ELSE -1)
       THEN "failure_wrong_orientation"
  ELSE "no_failure"

\* The first verdict of a sequence that is a failure.
FirstFailure(fs) ==
  IF \E k \in 1..Len(fs) : fs[k] # "no_failure"
  THEN fs[CHOOSE k \in 1..Len(fs) :
            fs[k] # "no_failure" /\ \A m \in 1..(k - 1) : fs[m] = "no_failure"]
  ELSE "no_failure"

PolygonRings(poly) == <<poly.outer>> \o poly.inners

\* The polygon-level checks, made when every ring passed its own.
PolygonTopology(poly, rs) ==
  IF \/ \E k \in 1..Len(rs) : RingSelfIntersects(rs[k])
     \/ \E i \in 1..Len(rs) : \E j \in (i + 1)..Len(rs) : RingsMeet(rs[i], rs[j])
  THEN "failure_self_intersections"
  ELSE IF \E k \in 2..Len(rs) : ~PointInRing(rs[k][1], rs[1])
  THEN "failure_interior_rings_outside"
  ELSE IF \E i, j \in 2..Len(rs) : i # j /\ PointInRing(rs[i][1], rs[j])
  THEN "failure_nested_interior_rings"
  ELSE "no_failure"

OrElse(first, second) == IF first # "no_failure" THEN first ELSE second

PolygonFailure(poly) ==
  OrElse(FirstFailure([k \in 1..(1 + Len(poly.inners)) |->
                         RingFailure(PolygonRings(poly)[k], k > 1, FALSE)]),
         PolygonTopology(poly, PolygonRings(poly)))

MultiPolygonTopology(mp) ==
  IF \E i, j \in 1..Len(mp) :
       /\ i # j
       /\ \/ RingsMeet(mp[i].outer, mp[j].outer)
          \/ PointInRing(mp[i].outer[1], mp[j].outer)
  THEN "failure_intersecting_interiors"
  ELSE "no_failure"

\* Mutant of MultiPolygonFailure: a multipolygon without polygons is
\* judged to have too few points.
MultiPolygonFailureEmpty(mp) ==
  IF mp = <<>> THEN "failure_few_points"
  ELSE OrElse(FirstFailure([k \in 1..Len(mp) |-> PolygonFailure(mp[k])]),
              MultiPolygonTopology(mp))

MultiPolygonFailure(mp) ==
  OrElse(FirstFailure([k \in 1..Len(mp) |-> PolygonFailure(mp[k])]),
         MultiPolygonTopology(mp))

\* ggl::is_valid(geo, failure) for the three geometry kinds Simplify and
\* EnsureValid are instantiated with.
Validity(kind, g) ==
  CASE kind = "Ring"         -> RingFailure(g, FALSE, TRUE)
    [] kind = "Polygon"      -> PolygonFailure(g)
    [] kind = "MultiPolygon" -> MultiPolygonFailure(g)

\* --------------------------------------------------------------- Simplify
\* Tolerances are millimetres: 0.01 m, Tune::SimplifyForCorners and
\* DefaultSimplifyTol.
MinTolMm == 10
SimplifyForCorners == 10000
DefaultSimplifyTol == 100

\* ggl::simplify(geo, simp, tolerance): every result the library may
\* return.  Rings are simplified one by one, whatever holds them.
LibSimplify(kind, g, tol2) ==
  {FromMultiPolygon(kind, q) :
     q \in SimplifyMultiPolygon(AsMultiPolygon(kind, g), tol2)}

Returnable == {"no_failure", "failure_wrong_orientation"}
Retryable  == {"failure_self_intersections", "failure_few_points"}

\* Every candidate result paired with the verdict of ggl::is_valid on it.
Judged(kind, cands) == {<<c, Validity(kind, c)>> : c \in cands}

LogEntry(k, f) == [halvings |-> k, failure |-> f]

RECURSIVE SimplifyLoop(_, _, _, _, _)
RECURSIVE SimplifyAttempt(_, _, _, _, _, _)
\* One pass of the while loop of Simplify, given the judged results of
\* ggl::simplify: return simp, throw, or halve the tolerance and go on.
SimplifyAttempt(kind, g, tolMm, k, log, judged) ==
  {[status |-> "ok", geo |-> j[1], from |-> "simplified",
    log |-> Append(log, LogEntry(k, j[2]))] :
      j \in {i \in judged : i[2] \in Returnable}}
  \cup
  {[status |-> "error", geo |-> <<>>, from |-> "none",
    log |-> Append(log, LogEntry(k, j[2]))] :
      j \in {i \in judged : i[2] \notin (Returnable \cup Retryable)}}
  \cup
  UNION {SimplifyLoop(kind, g, tolMm, k + 1, Append(log, LogEntry(k, j[2]))) :
           j \in {i \in judged : i[2] \in Retryable}}

\* Mutant of SimplifyLoop: after the first failed attempt the original is
\* returned at once, the tolerance is never halved.
SimplifyLoopNoHalve(kind, g, tolMm, k, log) ==
  IF ~(tolMm >= MinTolMm * Pow2(k)) \/ k > 0
  THEN {[status |-> "ok", geo |-> g, from |-> "original", log |-> log]}
  ELSE SimplifyAttempt(kind, g, tolMm, k, log,
                       Judged(kind, LibSimplify(kind, g, Tol2(tolMm, k))))

\* The while loop of Simplify.  k counts the halvings so far, so the
\* tolerance of this attempt is tolMm / 2^k; log records the verdict of
\* every attempt.  The result is the set of outcomes the call can have.
\* Mutant of SimplifyLoop: the loop goes on while the tolerance is at least
\* 1 mm.
SimplifyLoopToMillimetre(kind, g, tolMm, k, log) ==
  IF ~(tolMm >= Pow2(k))
  THEN {[status |-> "ok", geo |-> g, from |-> "original", log |-> log]}
  ELSE SimplifyAttempt(kind, g, tolMm, k, log,
                       Judged(kind, LibSimplify(kind, g, Tol2(tolMm, k))))

SimplifyLoop(kind, g, tolMm, k, log) ==
  IF ~(tolMm >= MinTolMm * Pow2(k))
  THEN {[status |-> "ok", geo |-> g, from |-> "original", log |-> log]}
  ELSE SimplifyAttempt(kind, g, tolMm, k, log,
                       Judged(kind, LibSimplify(kind, g, Tol2(tolMm, k))))

Simplify(kind, g, tolMm) ==
  IF ~(tolMm >= MinTolMm)
  THEN {[status |-> "bug", geo |-> <<>>, from |-> "none", log |-> <<>>]}
  ELSE SimplifyLoop(kind, g, tolMm, 0, <<>>)

\* ------------------------------------------------------- corner detection
\* The product a * b of two doubles is the negative zero: one factor is
\* zero and the signs differ.  A component of an edge that is zero is the
\* difference of two equal coordinates, which is the positive zero.
MinusZero(a, b) == (a = 0 /\ b < 0) \/ (a < 0 /\ b = 0)

\* cross(u, v) = u[0]*v[1] - u[1]*v[0] is the negative zero: (-0) - (+0).
CrossMinusZero(u, v) ==
  /\ cross(u, v) = 0
  /\ MinusZero(u[1], v[2])
  /\ u[2] * v[1] = 0 /\ ~MinusZero(u[2], v[1])

\* dot(u, v) = u[0]*v[0] + u[1]*v[1] is the negative zero: (-0) + (-0).
DotMinusZero(u, v) == MinusZero(u[1], v[1]) /\ MinusZero(u[2], v[2])

\* th <= -Theta for th = curr.angle_wrt(prev) = atan2(cross, dot) and
\* Theta = 45 degrees (Tune::CornerAngleDeg).  atan2(y, x) is at most
\* -45 degrees for y < 0 and x <= -y; for y the negative zero it is -180
\* degrees when x is negative and the negative zero otherwise.
TurnsRight45(prev, curr) ==
  \/ /\ cross(prev, curr) < 0
     /\ dot(prev, curr) <= -cross(prev, curr)
  \/ /\ CrossMinusZero(prev, curr)
     /\ dot(prev, curr) < 0 \/ DotMinusZero(prev, curr)

\* Mutant of FindCornersSimp: the sign of the turn is taken the other way
\* round (left turns of 45 degrees or more are the corners).
FindCornersSimpLeft(rg) ==
  IF ~(Len(rg) >= 3 /\ rg[1] = rg[Len(rg)])
  THEN [status |-> "bug", corners |-> <<>>]
  ELSE LET n == Len(rg) - 1
           prev(i) == IF i = 0 THEN Sub(rg[1], rg[n]) ELSE Sub(rg[i + 1], rg[i])
           curr(i) == Sub(rg[i + 2], rg[i + 1])
       IN [status  |-> "ok",
           corners |-> SortedSeq({i \in 0..(n - 1) : TurnsRight45(curr(i), prev(i))})]

FindCornersSimp(rg) ==
  IF ~(Len(rg) >= 3 /\ rg[1] = rg[Len(rg)])
  THEN [status |-> "bug", corners |-> <<>>]
  ELSE LET n == Len(rg) - 1
           prev(i) == IF i = 0 THEN Sub(rg[1], rg[n]) ELSE Sub(rg[i + 1], rg[i])
           curr(i) == Sub(rg[i + 2], rg[i + 1])
       IN [status  |-> "ok",
           corners |-> SortedSeq({i \in 0..(n - 1) : TurnsRight45(prev(i), curr(i))})]

RECURSIVE NearestScanLast(_, _, _, _, _)
\* Mutant of NearestScan: "d2 <= best_d2", a later vertex at the same
\* distance replaces the earlier one.
NearestScanLast(orig, corner, i, best, bestD2) ==
  IF i = Len(orig) - 1 THEN best
  ELSE LET d2 == Dist2(orig[i + 1], corner)
       IN IF d2 <= bestD2 THEN NearestScanLast(orig, corner, i + 1, i, d2)
          ELSE NearestScanLast(orig, corner, i + 1, best, bestD2)

RECURSIVE NearestScan(_, _, _, _, _)
\* The inner for loop of MapCornersToOriginal: i runs from i0+1 to n-1.
NearestScan(orig, corner, i, best, bestD2) ==
  IF i = Len(orig) - 1 THEN best
  ELSE LET d2 == Dist2(orig[i + 1], corner)
       IN IF d2 < bestD2 THEN NearestScan(orig, corner, i + 1, i, d2)
          ELSE NearestScan(orig, corner, i + 1, best, bestD2)

Min(a, b) == IF a < b THEN a ELSE b

RECURSIVE MapLoop(_, _, _, _, _)
\* The outer for loop of MapCornersToOriginal over simp_corners from
\* position k on, with the start cursor i0; the result is the set `out`.
MapLoop(orig, simp, sc, k, i0) ==
  IF k > Len(sc) THEN {}
  ELSE LET corner == simp[sc[k] + 1]
           best   == NearestScan(orig, corner, i0 + 1, i0, Dist2(orig[i0 + 1], corner))
       IN {best} \cup MapLoop(orig, simp, sc, k + 1, Min(0, best + 1))

\* std::sort and std::unique make `out` the ascending list of its members.
MapCornersToOriginal(orig, simp, sc) ==
  IF orig = <<>> \/ simp = <<>> \/ sc = <<>> THEN <<>>
  ELSE SortedSeq(MapLoop(orig, simp, sc, 1, 0))

\* FindCorners(const xy::Ring&): the outcomes of Simplify at 10 m, each
\* followed by FindCornersSimp and MapCornersToOriginal.
FindCornersRing(rg) ==
  {IF o.status # "ok" THEN [status |-> o.status, corners |-> <<>>]
   ELSE LET sc == FindCornersSimp(o.geo)
        IN IF sc.status # "ok" THEN [status |-> "bug", corners |-> <<>>]
           ELSE [status  |-> "ok",
                 corners |-> MapCornersToOriginal(rg, o.geo, sc.corners)] :
     o \in Simplify("Ring", rg, SimplifyForCorners)}

\* FindCorners followed by AdjustCorners on one ring of a polygon.
RingWithCorners(rg) ==
  {IF f.status # "ok" THEN [status |-> f.status, ring |-> rg, corners |-> <<>>]
   ELSE LET a == AdjustCorners(rg, f.corners)
        IN [status |-> "ok", ring |-> a.ring, corners |-> a.corners] :
     f \in FindCornersRing(rg)}

\* Mutant of FindCorners: the interior rings are skipped.
FindCornersOuterOnly(poly) ==
  {[status     |-> o.status,
    poly       |-> [outer |-> o.ring, inners |-> poly.inners],
    allCorners |-> <<o.corners>>] : o \in RingWithCorners(poly.outer)}

\* FindCorners(xy::Polygon&): the exterior ring, then every interior ring;
\* the first ring that fails ends the call.  The polygon's rings are
\* rotated in place.
FindCorners(poly) ==
  {LET rs  == PolygonRings(poly)
       bad == {k \in 1..Len(rs) : per[k].status # "ok"}
   IN IF bad # {}
      THEN [status |-> per[CHOOSE k \in bad : \A m \in bad : k <= m].status,
            poly |-> poly, allCorners |-> <<>>]
      ELSE [status     |-> "ok",
            poly       |-> [outer  |-> per[1].ring,
                            inners |-> [k \in 1..Len(poly.inners) |-> per[k + 1].ring]],
            allCorners |-> [k \in 1..Len(rs) |-> per[k].corners]] :
     per \in SeqProduct([k \in 1..(1 + Len(poly.inners)) |->
                           RingWithCorners(PolygonRings(poly)[k])])}

\* ------------------------------------------------------------ ggl::buffer
\* The inset of the polygons explored here: an axis-aligned rectangle with
\* axis-aligned rectangular holes, buffered by -d.  The exterior moves
\* inward by d and keeps its square corners; every hole grows by d and its
\* corners become arcs of radius d (join_round), drawn through the lattice
\* points of the circle.  Exterior rings are clockwise and interior rings
\* counter-clockwise, as xy::Polygon orders them.
BBox(rg) ==
  LET xs == {rg[k][1] : k \in 1..Len(rg)}
      ys == {rg[k][2] : k \in 1..Len(rg)}
      lo(S) == CHOOSE v \in S : \A w \in S : v <= w
      hi(S) == CHOOSE v \in S : \A w \in S : v >= w
  IN [x1 |-> lo(xs), y1 |-> lo(ys), x2 |-> hi(xs), y2 |-> hi(ys)]

RectRing(b) ==
  <<<<b.x1, b.y1>>, <<b.x1, b.y2>>, <<b.x2, b.y2>>, <<b.x2, b.y1>>, <<b.x1, b.y1>>>>

\* Interior vertices of the quarter circle of radius r about c that turns
\* from direction d0 to direction d1.
Arc(c, d0, d1, r) ==
  IF r % 5 # 0 THEN <<>>
  ELSE LET a == 4 * (r \div 5)
           b == 3 * (r \div 5)
       IN << <<c[1] + a * d0[1] + b * d1[1], c[2] + a * d0[2] + b * d1[2]>>,
             <<c[1] + b * d0[1] + a * d1[1], c[2] + b * d0[2] + a * d1[2]>> >>

GrownHole(h, d) ==
  <<<<h.x1, h.y1 - d>>, <<h.x2, h.y1 - d>>>>
    \o Arc(<<h.x2, h.y1>>, <<0, -1>>, <<1, 0>>, d)
    \o <<<<h.x2 + d, h.y1>>, <<h.x2 + d, h.y2>>>>
    \o Arc(<<h.x2, h.y2>>, <<1, 0>>, <<0, 1>>, d)
    \o <<<<h.x2, h.y2 + d>>, <<h.x1, h.y2 + d>>>>
    \o Arc(<<h.x1, h.y2>>, <<0, 1>>, <<-1, 0>>, d)
    \o <<<<h.x1 - d, h.y2>>, <<h.x1 - d, h.y1>>>>
    \o Arc(<<h.x1, h.y1>>, <<-1, 0>>, <<0, -1>>, d)
    \o <<<<h.x1, h.y1 - d>>>>

\* ggl::buffer(in, inset, -offset, ...).  A hole that reaches across the
\* whole height of the inset exterior cuts it into a left and a right
\* polygon; an exterior with no width or height left gives no polygon.
Buffer(poly, offMm) ==
  LET d  == offMm \div 1000
      o  == BBox(poly.outer)
      sb == [x1 |-> o.x1 + d, y1 |-> o.y1 + d, x2 |-> o.x2 - d, y2 |-> o.y2 - d]
      hs == [k \in 1..Len(poly.inners) |-> BBox(poly.inners[k])]
      across == {k \in 1..Len(hs) : hs[k].y1 <= sb.y1 /\ hs[k].y2 >= sb.y2}
  IN IF sb.x2 <= sb.x1 \/ sb.y2 <= sb.y1 THEN <<>>
     ELSE IF across = {}
     THEN <<[outer  |-> RectRing(sb),
             inners |-> [k \in 1..Len(hs) |-> GrownHole(hs[k], d)]]>>
     ELSE LET h == hs[CHOOSE k \in across : TRUE]
          IN <<[outer |-> RectRing([sb EXCEPT !.x2 = h.x1 - d]), inners |-> <<>>],
               [outer |-> RectRing([sb EXCEPT !.x1 = h.x2 + d]), inners |-> <<>>]>>

\* ------------------------------------------------------------ EnsureValid
EnsureValid(kind, g) ==
  IF Validity(kind, g) = "no_failure" THEN "ok" ELSE "Invalid geometry"

\* ------------------------------------------------------------ ComputeInset
MinOffsetMm == 100
InsetExpectsMm == 1000

\* The inset once ggl::buffer has produced it.
CheckedInset(inset) ==
  IF EnsureValid("MultiPolygon", inset) # "ok"
  THEN [status |-> "error", err |-> "Invalid geometry: inset", inset |-> inset]
  ELSE [status |-> "ok", err |-> "none", inset |-> inset]

ComputeInset(in, offMm) ==
  IF EnsureValid("Polygon", in) # "ok"
  THEN [status |-> "error", err |-> "Invalid geometry: in", inset |-> <<>>]
  ELSE IF ~(offMm >= InsetExpectsMm)
  THEN [status |-> "bug", err |-> "Expects offset >= 1.0 m", inset |-> <<>>]
  ELSE CheckedInset(Buffer(in, offMm))

\* ------------------------------------------------ ring-level state machine
RingLens == 4..MaxRingLen

\* Closed rings over TestPoints: first point equals last.
ClosedRings ==
  UNION {{Append(s, s[1]) : s \in [1..(n - 1) -> TestPoints]} : n \in RingLens}

\* Ascending duplicate-free index lists; the one-past-the-end index |ring|
\* is included, it is what the assertions of ExtractSwaths guard against.
CornerLists(rg) == {SortedSeq(S) : S \in SUBSET (0..Len(rg))}

\* The variables of a call that is not being explored stay at rest.
RingIdle ==
  /\ ring = <<>> /\ corners = <<>> /\ ring0 = <<>> /\ corners0 = <<>>
  /\ swaths = <<>> /\ stage = "idle"

PipeIdle ==
  /\ pc = "idle" /\ poly_in = <<>> /\ offset = 0 /\ simplifyTol = 0
  /\ inset_mp = <<>> /\ simp_mp = <<>> /\ cvs = <<>> /\ linesVec = <<>>
  /\ err = "none"
  /\ poly_in0 = <<>> /\ callNo = 0 /\ firstOut = <<>>

NoResult == [status |-> "none", geo |-> <<>>, from |-> "none", log |-> <<>>]

SimpIdle ==
  /\ geoKind = "none" /\ geoArg = <<>> /\ tolerance = 0 /\ simpOut = NoResult

ZipIdle ==
  /\ zreader = "none" /\ zenv = <<>> /\ zpc = "idle" /\ zlib = <<>>
  /\ zfiles = <<>> /\ ztodo = <<>> /\ ztmp = "none" /\ zres = <<>>

XmlIdle ==
  /\ xdoc = <<>> /\ xpc = "idle" /\ xi = 0 /\ xdb = <<>> /\ xerr = "none"
  /\ xout = <<>> /\ xpolys = <<>> /\ xback = <<>>

ShpIdle ==
  /\ senv = <<>> /\ spc = "idle" /\ si = 0 /\ sdb = <<>> /\ serr = "none"
  /\ shandles = {}

CliIdle ==
  /\ cargs = <<>> /\ cgsl = "none" /\ cpc = "idle" /\ cstatus = -1
  /\ cfailed = "none" /\ chasParts = FALSE /\ cwritten = FALSE

MapIdle ==
  /\ mcall = "none" /\ morig = <<>> /\ msimp = <<>> /\ msc = <<>>
  /\ mtrace = <<>> /\ mout = <<>> /\ mpc = "idle"

PathIdle == ppath = <<>> /\ plsg = <<>> /\ pread = <<>> /\ ppc = "idle"

LaterIdle == ZipIdle /\ XmlIdle /\ ShpIdle /\ CliIdle /\ MapIdle /\ PathIdle

RingInit ==
  /\ ring \in ClosedRings
  /\ corners \in CornerLists(ring)
  /\ ring0 = ring
  /\ corners0 = corners
  /\ swaths = <<>>
  /\ stage = "input"
  /\ PipeIdle /\ SimpIdle /\ LaterIdle

CallAdjustCorners ==
  /\ stage = "input"
  /\ LET a == AdjustCorners(ring, corners)
     IN /\ ring' = a.ring
        /\ corners' = a.corners
  /\ stage' = "adjusted"
  /\ UNCHANGED <<ring0, corners0, swaths, pipeVars, simpVars, laterVars>>

CallExtractSwaths ==
  /\ stage \in {"input", "adjusted"}
  /\ LET e == ExtractSwaths(ring, corners)
     IN /\ swaths' = e.swaths
        /\ stage' = IF e.status = "ok" THEN "extracted" ELSE e.status
  /\ UNCHANGED <<ring, corners, ring0, corners0, pipeVars, simpVars, laterVars>>

RingNext == CallAdjustCorners \/ CallExtractSwaths

SpecRing == RingInit /\ [][RingNext]_vars

\* ------------------------------------------- Simplify state machine
Ring90       == <<<<5, 5>>, <<5, 95>>, <<95, 95>>, <<95, 5>>, <<5, 5>>>>
Ring90Ccw    == <<<<5, 5>>, <<95, 5>>, <<95, 95>>, <<5, 95>>, <<5, 5>>>>
Ring3        == <<<<0, 0>>, <<0, 3>>, <<3, 3>>, <<3, 0>>, <<0, 0>>>>
RingSliver   == <<<<0, 0>>, <<199, 2>>, <<100, 1>>, <<0, 0>>>>
RingToSpike  == <<<<0, 0>>, <<0, 1>>, <<0, 4>>, <<2, 1>>, <<6, 1>>, <<0, 0>>>>
RingToCross  == <<<<0, 0>>, <<0, 4>>, <<2, 1>>, <<4, 4>>, <<2, 0>>, <<0, 0>>>>
RingStrip    == <<<<2, 2>>, <<2, 6>>, <<198, 6>>, <<198, 2>>, <<2, 2>>>>

SimplifyRings ==
  {Ring90, Ring90Ccw, Ring3, RingSliver, RingToSpike, RingToCross, RingStrip}

SimplifyPolygons ==
  {[outer |-> Ring90, inners |-> <<>>],
   [outer |-> Ring90, inners |-> <<GrownHole(BBox(<<<<40, 40>>, <<60, 60>>>>), 2)>>],
   [outer |-> Ring3, inners |-> <<>>]}

SimplifyTols == {5, 10, 15, 20, 100, 1500, 10000}

SimpInit ==
  /\ \/ geoKind = "Ring" /\ geoArg \in SimplifyRings
     \/ geoKind = "Polygon" /\ geoArg \in SimplifyPolygons
     \/ geoKind = "MultiPolygon" /\ geoArg \in {<<>>} \cup {<<q>> : q \in SimplifyPolygons}
  /\ tolerance \in SimplifyTols
  /\ simpOut = NoResult
  /\ RingIdle /\ PipeIdle /\ LaterIdle

CallSimplify ==
  /\ simpOut = NoResult
  /\ simpOut' \in Simplify(geoKind, geoArg, tolerance)
  /\ UNCHANGED <<geoKind, geoArg, tolerance, ringVars, pipeVars, laterVars>>

SimpNext == CallSimplify

SpecSimplify == SimpInit /\ [][SimpNext]_vars

\* ----------------------------------------- BoundarySwaths state machine
Square ==
  [outer  |-> <<<<0, 0>>, <<0, 100>>, <<100, 100>>, <<100, 0>>, <<0, 0>>>>,
   inners |-> <<>>]

\* The square as scenario S1 lists it.
SquareS1 ==
  [outer  |-> <<<<0, 0>>, <<100, 0>>, <<100, 100>>, <<0, 100>>, <<0, 0>>>>,
   inners |-> <<>>]

Rect200x8 ==
  [outer  |-> <<<<0, 0>>, <<0, 8>>, <<200, 8>>, <<200, 0>>, <<0, 0>>>>,
   inners |-> <<>>]

\* The 100 m square, clockwise, its ring starting in the middle of the west side.
SquareMidStart ==
  [outer  |-> <<<<0, 50>>, <<0, 100>>, <<100, 100>>, <<100, 0>>, <<0, 0>>, <<0, 50>>>>,
   inners |-> <<>>]

SquareWithHole ==
  [outer  |-> Square.outer,
   inners |-> <<<<<<40, 40>>, <<60, 40>>, <<60, 60>>, <<40, 60>>, <<40, 40>>>>>>]

\* The square with a hole as scenario S3 lists it, rings closed.
SquareWithHoleS3 ==
  [outer  |-> SquareS1.outer,
   inners |-> <<<<<<40, 40>>, <<40, 60>>, <<60, 60>>, <<60, 40>>, <<40, 40>>>>>>]

RectTwoHoles ==
  [outer  |-> <<<<0, 0>>, <<0, 60>>, <<100, 60>>, <<100, 0>>, <<0, 0>>>>,
   inners |-> <<<<<<20, 20>>, <<30, 20>>, <<30, 40>>, <<20, 40>>, <<20, 20>>>>,
                <<<<60, 25>>, <<80, 25>>, <<80, 35>>, <<60, 35>>, <<60, 25>>>>>>]

RectWithSlot ==
  [outer  |-> <<<<0, 0>>, <<0, 40>>, <<100, 40>>, <<100, 0>>, <<0, 0>>>>,
   inners |-> <<<<<<48, 1>>, <<52, 1>>, <<52, 39>>, <<48, 39>>, <<48, 1>>>>>>]

InputPolygons ==
  {Square, SquareS1, SquareMidStart, Rect200x8, SquareWithHole, SquareWithHoleS3,
   RectTwoHoles, RectWithSlot}

Offsets == {50, 500, 1000, 2000, 5000}

Tolerances == {5, DefaultSimplifyTol, 2000}

Init ==
  /\ pc = "call"
  /\ poly_in \in InputPolygons
  /\ offset \in Offsets
  /\ simplifyTol \in Tolerances
  /\ inset_mp = <<>> /\ simp_mp = <<>> /\ cvs = <<>> /\ linesVec = <<>>
  /\ err = "none"
  /\ poly_in0 = poly_in /\ callNo = 1 /\ firstOut = <<>>
  /\ RingIdle /\ SimpIdle /\ LaterIdle

\* if (offset < 0.10 * metre) throw
CheckOffset ==
  /\ pc = "call"
  /\ IF offset < MinOffsetMm
     THEN pc' = "error" /\ err' = "<offset_m> must be >= 10 cm"
     ELSE pc' = "inset" /\ err' = err
  /\ UNCHANGED <<poly_in, offset, simplifyTol, inset_mp, simp_mp, cvs, linesVec,
                 callVars, ringVars, simpVars, laterVars>>

\* Mutant of CallComputeInset: the corners of the caller's polygon are found
\* first, which rotates its rings in place.
CallComputeInsetCornersFirst ==
  /\ pc = "inset"
  /\ \E f \in FindCorners(poly_in) :
       /\ poly_in' = f.poly
       /\ pc' = IF ComputeInset(f.poly, offset).status = "ok" THEN "simplify"
                ELSE ComputeInset(f.poly, offset).status
       /\ err' = ComputeInset(f.poly, offset).err
       /\ inset_mp' = ComputeInset(f.poly, offset).inset
  /\ UNCHANGED <<offset, simplifyTol, simp_mp, cvs, linesVec,
                 callVars, ringVars, simpVars, laterVars>>

CallComputeInset ==
  /\ pc = "inset"
  /\ LET c == ComputeInset(poly_in, offset)
     IN /\ pc' = IF c.status = "ok" THEN "simplify" ELSE c.status
        /\ err' = c.err
        /\ inset_mp' = c.inset
  /\ UNCHANGED <<poly_in, offset, simplifyTol, simp_mp, cvs, linesVec,
                 callVars, ringVars, simpVars, laterVars>>

CallSimplifyInset ==
  /\ pc = "simplify"
  /\ \E o \in Simplify("MultiPolygon", inset_mp, simplifyTol) :
       /\ pc' = IF o.status = "ok" THEN "polys" ELSE o.status
       /\ err' = CASE o.status = "ok"    -> err
                   [] o.status = "bug"   -> "Expects tolerance >= 0.01 m"
                   [] o.status = "error" -> "Simplify: invalid result"
       /\ simp_mp' = o.geo
  /\ UNCHANGED <<poly_in, offset, simplifyTol, inset_mp, cvs, linesVec,
                 callVars, ringVars, simpVars, laterVars>>

\* One pass of the for loop over simp_mp; Len(cvs) polygons are done.
ProcessPolygon ==
  /\ pc = "polys"
  /\ Len(cvs) < Len(simp_mp)
  /\ \E f \in FindCorners(simp_mp[Len(cvs) + 1]) :
       LET rs == PolygonRings(f.poly)
           ex == [k \in 1..Len(f.allCorners) |-> ExtractSwaths(rs[k], f.allCorners[k])]
       IN IF f.status # "ok"
          THEN /\ pc' = f.status
               /\ err' = IF f.status = "bug" THEN "Expects in FindCorners"
                         ELSE "Simplify: invalid result"
               /\ UNCHANGED <<simp_mp, cvs, linesVec>>
          ELSE IF Len(f.allCorners) # 1 + Len(f.poly.inners)
          THEN /\ pc' = "bug"
               /\ err' = "Expects ssize(cv) == 1 + ssize(inners)"
               /\ UNCHANGED <<simp_mp, cvs, linesVec>>
          ELSE IF \E k \in 1..Len(ex) : ex[k].status # "ok"
          THEN /\ pc' = "bug"
               /\ err' = "Expects in ExtractSwaths"
               /\ UNCHANGED <<simp_mp, cvs, linesVec>>
          ELSE /\ simp_mp' = [simp_mp EXCEPT ![Len(cvs) + 1] = f.poly]
               /\ cvs' = Append(cvs, f.allCorners)
               /\ linesVec' = linesVec \o [k \in 1..Len(ex) |-> ex[k].swaths]
               /\ UNCHANGED <<pc, err>>
  /\ UNCHANGED <<poly_in, offset, simplifyTol, inset_mp, callVars, ringVars, simpVars, laterVars>>

Return ==
  /\ pc = "polys"
  /\ Len(cvs) = Len(simp_mp)
  /\ pc' = "done"
  /\ UNCHANGED <<poly_in, offset, simplifyTol, inset_mp, simp_mp, cvs, linesVec,
                 err, callVars, ringVars, simpVars, laterVars>>

\* The caller makes the call once more with the arguments of the call that ended.
CallAgain ==
  /\ pc \in {"done", "error", "bug"}
  /\ callNo < MaxCalls
  /\ firstOut' = IF callNo = 1 THEN [pc |-> pc, err |-> err, linesVec |-> linesVec]
                 ELSE firstOut
  /\ callNo' = callNo + 1
  /\ pc' = "call"
  /\ inset_mp' = <<>> /\ simp_mp' = <<>> /\ cvs' = <<>> /\ linesVec' = <<>>
  /\ err' = "none"
  /\ UNCHANGED <<poly_in, poly_in0, offset, simplifyTol, ringVars, simpVars, laterVars>>

Next ==
  \/ CheckOffset
  \/ CallComputeInset
  \/ CallSimplifyInset
  \/ ProcessPolygon
  \/ Return
  \/ CallAgain

Spec == Init /\ [][Next]_vars

\* ------------------------------------------------------ reading a .zip
\* Two readers open a .zip input: FarmDb::ReadZip (FarmZip.cpp), which goes
\* through the ZipArchive wrapper (ZipArchive.hpp) and a temp directory, and
\* the ReadZip that FarmDb::ReadXml calls (FarmXml.cpp), which calls libzip
\* directly and reads the entry into memory.
\*
\* An archive entry is its name, split at the extension.  A ZipArchive::File
\* is [za, index, zf]: za tells whether the archive pointer is set, index is
\* _index, and zf is the zip_file_t: 0 for nullptr, h > 0 for the h-th
\* handle libzip handed out.  libzip itself is [za, zfs, freads]: the state
\* of the zip_t, the handles handed out so far, and the zip_fread calls made.

\* Data chunks zip_fread delivers for an entry before it returns 0.
EntryChunks == 2

Entry(stem, ext) == [stem |-> stem, ext |-> ext]

TaskDataName == Entry("TASKDATA/TASKDATA", ".XML")

NullFile == [za |-> FALSE, index |-> -1, zf |-> 0]

NoFiles ==
  [taskIdx |-> NullFile, shpIdx |-> NullFile, shxIdx |-> NullFile,
   dbfIdx |-> NullFile, prjIdx |-> NullFile, cpgIdx |-> NullFile, zf |-> 0]

NoLib == [za |-> "null", zfs |-> <<>>, freads |-> 0]

\* File::operator bool
FileBool(f) == f.za /\ f.index >= 0

\* File::isOpen
IsOpen(f) == f.zf # 0

Threw(lib, f, msg) == [lib |-> lib, file |-> f, threw |-> msg]

Done(lib, f) == [lib |-> lib, file |-> f, threw |-> "none"]

\* zip_fclose: the handle is gone whatever is returned; the result is the
\* error the handle recorded.
ZipFclose(lib, h) == [lib EXCEPT !.zfs[h].st = "closed"]

\* bool File::close(int* errp)
FileClose(lib, f) ==
  IF ~IsOpen(f) THEN [lib |-> lib, file |-> f, ok |-> TRUE]
  ELSE [lib  |-> ZipFclose(lib, f.zf),
        file |-> [f EXCEPT !.zf = 0, !.index = -1],
        ok   |-> ~lib.zfs[f.zf].error]

FileClosed(c) ==
  IF c.ok THEN Done(c.lib, c.file) ELSE Threw(c.lib, c.file, "cannot close")

\* void File::close()
FileCloseOrDie(lib, f) == FileClosed(FileClose(lib, f))

\* zip_fopen_index: NULL for an index that names no entry or an entry that
\* cannot be opened.
ZipFopenIndex(lib, index, e) ==
  IF lib.za = "open" /\ index >= 0 /\ index < Len(e.entries) /\ e.entryOk
  THEN [lib |-> [lib EXCEPT !.zfs = Append(@, [st |-> "open", left |-> EntryChunks,
                                                error |-> FALSE])],
        zf  |-> Len(lib.zfs) + 1]
  ELSE [lib |-> lib, zf |-> 0]

FileOpened(o, f) ==
  IF o.zf = 0 THEN Threw(o.lib, f, "cannot open")
  ELSE Done(o.lib, [f EXCEPT !.zf = o.zf])

FileOpenAfterClose(c, e) ==
  IF c.threw # "none" THEN c
  ELSE FileOpened(ZipFopenIndex(c.lib, c.file.index, e), c.file)

\* void File::open(): close(), then zip_fopen_index(za->za, _index, flags).
FileOpen(lib, f, e) == FileOpenAfterClose(FileCloseOrDie(lib, f), e)

\* zip_fread: -1 on error, else the bytes read, 0 at the end of the entry.
ZipFread(lib, zf, e) ==
  IF zf = 0 THEN [lib |-> [lib EXCEPT !.freads = @ + 1], n |-> -1]
  ELSE IF lib.freads + 1 = e.readFailAt
  THEN [lib |-> [lib EXCEPT !.freads = @ + 1, !.zfs[zf].error = TRUE], n |-> -1]
  ELSE IF lib.zfs[zf].left > 0
  THEN [lib |-> [lib EXCEPT !.freads = @ + 1, !.zfs[zf].left = @ - 1], n |-> 1]
  ELSE [lib |-> [lib EXCEPT !.freads = @ + 1], n |-> 0]

RECURSIVE ExtractReadLoop(_, _, _)
ExtractRead(r, f, e) ==
  IF r.n < 0 THEN Threw(r.lib, f, "read error")
  ELSE IF r.n = 0 THEN FileCloseOrDie(r.lib, f)
  ELSE IF ~e.writeOk THEN Threw(r.lib, f, "write failed")
  ELSE ExtractReadLoop(r.lib, f, e)

\* The for (;;) of ExtractEntryToFile and the file.close() after it.
ExtractReadLoop(lib, f, e) == ExtractRead(ZipFread(lib, f.zf, e), f, e)

ExtractOpened(o, e) ==
  IF o.threw # "none" THEN o ELSE ExtractReadLoop(o.lib, o.file, e)

\* ExtractEntryToFile(file, outPath): file is the function's own copy of the
\* caller's File, so the result's file is dropped when the call ends.
ExtractEntryToFile(lib, file, e) ==
  IF ~e.outOk THEN Threw(lib, file, "failed to create file")
  ELSE ExtractOpened(FileOpen(lib, file, e), e)

RECURSIVE NameLocateFrom(_, _, _)
\* 0-based index of the first entry from position k on named name, -1 when
\* there is none.
NameLocateFrom(entries, k, name) ==
  IF k > Len(entries) THEN -1
  ELSE IF entries[k] = name THEN k - 1
  ELSE NameLocateFrom(entries, k + 1, name)

\* zip_name_locate
ZipNameLocate(entries, name) == NameLocateFrom(entries, 1, name)

RECURSIVE FirstShpFrom(_, _)
\* The loop of FarmDb::ReadZip over the entries: the 0-based index of the
\* first entry whose extension is .shp, -1 when there is none.
FirstShpFrom(entries, k) ==
  IF k > Len(entries) THEN -1
  ELSE IF entries[k].ext = ".shp" THEN k - 1
  ELSE FirstShpFrom(entries, k + 1)

FileAt(idx) == IF idx < 0 THEN NullFile ELSE [za |-> TRUE, index |-> idx, zf |-> 0]

\* ZipArchive::file(const fs::path&)
ZipFile(e, name) == FileAt(ZipNameLocate(e.entries, name))

\* ~TempDir and ~ZipArchive, run when FarmDb::ReadZip returns or throws.
Unwound(lib) == [lib EXCEPT !.za = IF @ = "open" THEN "discarded" ELSE @]

Removed(tmp) == IF tmp = "made" THEN "removed" ELSE tmp

Running == [status |-> "running", msg |-> "none"]

\* ---- what is read
Shp(x) == Entry("field", x)

ZipEntryLists ==
  {<<TaskDataName>>,
   <<Shp(".prj"), TaskDataName>>,
   <<Shp(".shp"), Shp(".shx"), Shp(".dbf")>>,
   <<Shp(".cpg"), Shp(".dbf"), Shp(".prj"), Shp(".shp"), Shp(".shx")>>,
   <<Shp(".shp"), Shp(".dbf")>>,
   <<Shp(".shx"), Shp(".dbf"), Shp(".prj")>>,
   <<Shp(".shp"), Shp(".dbf"), Shp(".prj")>>,
   [k \in 1..9 |-> Shp(".shp")]}

ZipEnvs ==
  [ext : {".zip", ".xml", ".shp"}, entries : ZipEntryLists,
   zipOk : BOOLEAN, entryOk : BOOLEAN, tmpOk : BOOLEAN, outOk : BOOLEAN,
   writeOk : BOOLEAN, docOk : BOOLEAN, readFailAt : 0..3]

ZipInit ==
  /\ zreader \in {"FarmDb::ReadZip", "FarmDb::ReadXml"}
  /\ zenv \in ZipEnvs
  /\ zpc = "start"
  /\ zlib = NoLib
  /\ zfiles = NoFiles
  /\ ztodo = <<>>
  /\ ztmp = "none"
  /\ zres = Running
  /\ RingIdle /\ PipeIdle /\ SimpIdle /\ XmlIdle /\ ShpIdle /\ CliIdle /\ MapIdle /\ PathIdle

\* The reader ends: its result, and what the destructors leave behind.
ZipExit(lib, status, msg) ==
  /\ zres' = [status |-> status, msg |-> msg]
  /\ zlib' = Unwound(lib)
  /\ ztmp' = Removed(ztmp)
  /\ zpc' = "exit"

\* ---- FarmDb::ReadZip (FarmZip.cpp)
\* The extension check and ZipArchive{zipPath, ZIP_RDONLY}.
RZ_OpenArchive ==
  /\ zreader = "FarmDb::ReadZip" /\ zpc = "start"
  /\ IF zenv.ext # ".zip"
     THEN ZipExit(zlib, "threw", "expected a .zip file")
     ELSE IF ~zenv.zipOk
     THEN ZipExit(zlib, "threw", "cannot open")
     ELSE /\ zlib' = [zlib EXCEPT !.za = "open"]
          /\ zpc' = "locate"
          /\ UNCHANGED <<ztmp, zres>>
  /\ UNCHANGED <<zreader, zenv, zfiles, ztodo, notZipVars>>

\* auto taskIdx = zip.file(TaskDataName); if (taskIdx) ...
RZ_LocateTaskData ==
  /\ zreader = "FarmDb::ReadZip" /\ zpc = "locate"
  /\ zfiles' = [zfiles EXCEPT !.taskIdx = ZipFile(zenv, TaskDataName)]
  /\ zpc' = IF FileBool(ZipFile(zenv, TaskDataName)) THEN "tasktmp" ELSE "findshp"
  /\ UNCHANGED <<zreader, zenv, zlib, ztodo, ztmp, zres, notZipVars>>

\* The entry-count checks, the search for the .shp entry and its siblings.
RZ_FindShapefile ==
  /\ zreader = "FarmDb::ReadZip" /\ zpc = "findshp"
  /\ LET n   == Len(zenv.entries)
         i   == FirstShpFrom(zenv.entries, 1)
         sib(x) == ZipFile(zenv, Entry(zenv.entries[i + 1].stem, x))
     IN IF n < 3 THEN
          /\ ZipExit(zlib, "threw", "zip contains too few entries")
          /\ UNCHANGED <<zfiles, ztodo>>
        ELSE IF n > 8 THEN
          /\ ZipExit(zlib, "threw", "zip contains too many entries")
          /\ UNCHANGED <<zfiles, ztodo>>
        ELSE IF i < 0 THEN
          /\ ZipExit(zlib, "threw", "cannot find .shp file")
          /\ UNCHANGED <<zfiles, ztodo>>
        ELSE IF ~FileBool(sib(".shx")) \/ ~FileBool(sib(".dbf")) THEN
          /\ ZipExit(zlib, "threw", "cannot find .shx and .dbf files")
          /\ UNCHANGED <<zfiles, ztodo>>
        ELSE
          /\ zfiles' = [zfiles EXCEPT !.shpIdx = FileAt(i), !.shxIdx = sib(".shx"),
                                      !.dbfIdx = sib(".dbf"), !.prjIdx = sib(".prj"),
                                      !.cpgIdx = sib(".cpg")]
          /\ ztodo' = <<"shpIdx", "shxIdx", "dbfIdx", "dbfIdx", "dbfIdx">>
                        \o (IF FileBool(sib(".prj")) THEN <<"prjIdx">> ELSE <<>>)
                        \o (IF FileBool(sib(".cpg")) THEN <<"cpgIdx">> ELSE <<>>)
          /\ zpc' = "shptmp"
          /\ UNCHANGED <<zlib, ztmp, zres>>
  /\ UNCHANGED <<zreader, zenv, notZipVars>>

\* MakeUniqueTempDir() and TempDir{tmpPath}.
RZ_MakeTempDir ==
  /\ zreader = "FarmDb::ReadZip" /\ zpc \in {"tasktmp", "shptmp"}
  /\ IF ~zenv.tmpOk
     THEN ZipExit(zlib, "threw", "create_directories")
     ELSE /\ ztmp' = "made"
          /\ zpc' = IF zpc = "tasktmp" THEN "taskopen" ELSE "extract"
          /\ UNCHANGED <<zlib, zres>>
  /\ UNCHANGED <<zreader, zenv, zfiles, ztodo, notZipVars>>

\* taskIdx.open();
RZ_TaskOpen ==
  /\ zreader = "FarmDb::ReadZip" /\ zpc = "taskopen"
  /\ LET o == FileOpen(zlib, zfiles.taskIdx, zenv)
     IN IF o.threw # "none"
        THEN /\ ZipExit(o.lib, "threw", o.threw)
             /\ UNCHANGED <<zfiles, ztodo>>
        ELSE /\ zlib' = o.lib
             /\ zfiles' = [zfiles EXCEPT !.taskIdx = o.file]
             /\ ztodo' = <<"taskIdx">>
             /\ zpc' = "extract"
             /\ UNCHANGED <<ztmp, zres>>
  /\ UNCHANGED <<zreader, zenv, notZipVars>>

\* The next ExtractEntryToFile(...) call.
RZ_Extract ==
  /\ zreader = "FarmDb::ReadZip" /\ zpc = "extract" /\ ztodo # <<>>
  /\ LET x == ExtractEntryToFile(zlib, zfiles[Head(ztodo)], zenv)
     IN IF x.threw # "none"
        THEN /\ ZipExit(x.lib, "threw", x.threw)
             /\ UNCHANGED ztodo
        ELSE /\ zlib' = x.lib
             /\ ztodo' = Tail(ztodo)
             /\ UNCHANGED <<zpc, ztmp, zres>>
  /\ UNCHANGED <<zreader, zenv, zfiles, notZipVars>>

\* return ReadXml(outfile); / return FarmDb::ReadShp(outShp);
RZ_ReadExtracted ==
  /\ zreader = "FarmDb::ReadZip" /\ zpc = "extract" /\ ztodo = <<>>
  /\ IF zenv.docOk
     THEN ZipExit(zlib, "returned", "none")
     ELSE ZipExit(zlib, "threw", "reading the extracted file failed")
  /\ UNCHANGED <<zreader, zenv, zfiles, ztodo, notZipVars>>

\* ---- FarmDb::ReadXml on a path, and its ReadZip (FarmXml.cpp)
\* The extension test of FarmDb::ReadXml, then zip_open.
XZ_ZipOpen ==
  /\ zreader = "FarmDb::ReadXml" /\ zpc = "start"
  /\ IF zenv.ext = ".xml"
     THEN /\ zpc' = "parse"
          /\ UNCHANGED <<zlib, ztmp, zres>>
     ELSE IF zenv.ext # ".zip"
     THEN ZipExit(zlib, "threw", "FarmDb::ReadXml: invalid filename extension")
     ELSE IF ~zenv.zipOk
     THEN ZipExit(zlib, "threw", "zip_open failed")
     ELSE /\ zlib' = [zlib EXCEPT !.za = "open"]
          /\ zpc' = "fopen"
          /\ UNCHANGED <<ztmp, zres>>
  /\ UNCHANGED <<zreader, zenv, zfiles, ztodo, notZipVars>>

\* zip_fopen(zip, name, 0); on failure zip_close(zip) and throw.
XZ_Fopen ==
  /\ zreader = "FarmDb::ReadXml" /\ zpc = "fopen"
  /\ LET o == ZipFopenIndex(zlib, ZipNameLocate(zenv.entries, TaskDataName), zenv)
     IN IF o.zf = 0
        THEN /\ ZipExit([o.lib EXCEPT !.za = "closed"], "threw", "zip_fopen failed")
             /\ UNCHANGED zfiles
        ELSE /\ zlib' = o.lib
             /\ zfiles' = [zfiles EXCEPT !.zf = o.zf]
             /\ zpc' = "read"
             /\ UNCHANGED <<ztmp, zres>>
  /\ UNCHANGED <<zreader, zenv, ztodo, notZipVars>>

\* One pass of the zip_fread loop; zip_fclose and zip_close when it ends.
XZ_Read ==
  /\ zreader = "FarmDb::ReadXml" /\ zpc = "read"
  /\ LET r == ZipFread(zlib, zfiles.zf, zenv)
         closed == [ZipFclose(r.lib, zfiles.zf) EXCEPT !.za = "closed"]
     IN IF r.n < 0
        THEN ZipExit(closed, "threw", "zip_fread failed")
        ELSE IF r.n = 0
        THEN /\ zlib' = closed
             /\ zpc' = "parse"
             /\ UNCHANGED <<ztmp, zres>>
        ELSE /\ zlib' = r.lib
             /\ UNCHANGED <<zpc, ztmp, zres>>
  /\ UNCHANGED <<zreader, zenv, zfiles, ztodo, notZipVars>>

\* doc.load / doc.load_file and the rest of FarmDb::ReadXml.
XZ_Parse ==
  /\ zreader = "FarmDb::ReadXml" /\ zpc = "parse"
  /\ IF zenv.docOk
     THEN ZipExit(zlib, "returned", "none")
     ELSE ZipExit(zlib, "threw", "XML parse error")
  /\ UNCHANGED <<zreader, zenv, zfiles, ztodo, notZipVars>>

ZipNext ==
  \/ RZ_OpenArchive
  \/ RZ_LocateTaskData
  \/ RZ_FindShapefile
  \/ RZ_MakeTempDir
  \/ RZ_TaskOpen
  \/ RZ_Extract
  \/ RZ_ReadExtracted
  \/ XZ_ZipOpen
  \/ XZ_Fopen
  \/ XZ_Read
  \/ XZ_Parse

SpecZip == ZipInit /\ [][ZipNext]_vars

\* --------------------------------------------- ISO 11783 XML: FarmXml.cpp
\* A document is a tree of elements [name, attrs, kids]; attrs is the
\* sequence of attributes [k, v] in document order.  An attribute value is
\* the text it holds, kept by what it parses as: I(n) for a number, S(s)
\* for any other text, Id(pfx, n) for an identifier such as CTR1.
\* Latitudes and longitudes are whole degrees.
I(n) == [t |-> "int", n |-> n]

S(s) == [t |-> "str", s |-> s]

Id(pfx, n) == [t |-> "id", pfx |-> pfx, n |-> n]

At(k, v) == [k |-> k, v |-> v]

El(name, attrs, kids) == [name |-> name, attrs |-> attrs, kids |-> kids]

\* pugi::xml_node::attribute(name): the first attribute of that name.
HasAttr(x, key) == \E i \in 1..Len(x.attrs) : x.attrs[i].k = key

AttrValue(x, key) ==
  x.attrs[CHOOSE i \in 1..Len(x.attrs) :
            x.attrs[i].k = key /\ \A j \in 1..(i - 1) : x.attrs[j].k # key].v

Ok(v) == [ok |-> TRUE, msg |-> "none", val |-> v]

Fail(msg) == [ok |-> FALSE, msg |-> msg, val |-> <<>>]

\* RequireAttr<std::string>: any text does.
RequireStr(x, key) ==
  IF HasAttr(x, key) /\ AttrValue(x, key) # S("") THEN Ok(AttrValue(x, key))
  ELSE Fail("Invalid attribute")

\* RequireAttr<int>, RequireAttr<double>
RequireNum(x, key) ==
  IF HasAttr(x, key) /\ AttrValue(x, key).t = "int" THEN Ok(AttrValue(x, key).n)
  ELSE Fail("Invalid attribute")

\* RequireAttr<E> of an enum whose named values are lo..hi.
RequireEnum(x, key, lo, hi) ==
  IF HasAttr(x, key) /\ AttrValue(x, key).t = "int"
     /\ AttrValue(x, key).n >= lo /\ AttrValue(x, key).n <= hi
  THEN Ok(AttrValue(x, key).n)
  ELSE Fail("Invalid attribute")

\* GetId(pfx, attr): the number after the prefix, -1 when attr is no such id.
GetId(pfx, v) == IF v.t = "id" /\ v.pfx = pfx THEN v.n ELSE -1

RECURSIVE FindIndexFrom(_, _, _)
FindIndexFrom(db, id, k) ==
  IF k > Len(db) THEN -1
  ELSE IF db[k] = id THEN k - 1
  ELSE FindIndexFrom(db, id, k + 1)

\* FindIndex(const IndexDb&, int)
FindIndex(db, id) == FindIndexFrom(db, id, 1)

\* isoxml::PointType, LineStringType, PolygonType and Swath::Type values
PtGuideA == 6
PtGuideB == 7
PtGuidePoint == 9
PtField == 10
LsgExterior == 1
LsgInterior == 2
LsgGuidance == 5
PlnBoundary == 1

\* LatLon(lat, lon)
LatLon(lat, lon) == [latitude |-> lat, longitude |-> lon]

ReadPointChecked(x, a, c, d) ==
  IF ~a.ok \/ ~c.ok \/ ~d.ok THEN Fail("Invalid attribute")
  ELSE Ok([type |-> a.val, point |-> LatLon(c.val, d.val)])

\* ReadPoint(x): attributes other than A, C, D are logged and dropped.
ReadPoint(x) ==
  ReadPointChecked(x, RequireEnum(x, "A", 1, 11), RequireNum(x, "C"),
                   RequireNum(x, "D"))

RECURSIVE ReadPathFrom(_, _, _, _)
ReadPathPoint(kids, k, expPtType, pts, pt) ==
  IF ~pt.ok THEN pt
  ELSE IF pt.val.type # expPtType THEN Fail("ReadPath: expected point type")
  ELSE ReadPathFrom(kids, k + 1, expPtType, Append(pts, pt.val.point))

\* The loop of ReadPath over the children of the LSG.
ReadPathFrom(kids, k, expPtType, pts) ==
  IF k > Len(kids) THEN Ok(pts)
  ELSE IF kids[k].name # "PNT" THEN ReadPathFrom(kids, k + 1, expPtType, pts)
  ELSE ReadPathPoint(kids, k, expPtType, pts, ReadPoint(kids[k]))

\* ReadPath(x, expPtType): attributes other than A are logged and dropped.
ReadPath(x, expPtType) == ReadPathFrom(x.kids, 1, expPtType, <<>>)

NoPolygon == [outer |-> <<>>, inners |-> <<>>]

RECURSIVE ReadRingsFrom(_, _, _)
ReadRing(kids, k, poly, path, lsgType) ==
  IF ~path.ok THEN path
  ELSE IF ~lsgType.ok THEN lsgType
  ELSE IF lsgType.val = LsgExterior
  THEN IF poly.outer # <<>> THEN Fail("Polygon: multiple exterior rings")
       ELSE ReadRingsFrom(kids, k + 1, [poly EXCEPT !.outer = path.val])
  ELSE IF lsgType.val = LsgInterior
  THEN ReadRingsFrom(kids, k + 1, [poly EXCEPT !.inners = Append(@, path.val)])
  ELSE Fail("ReadPolygon: unexpected LineString type")

\* The loop of ReadPolygon over x.children("LSG").
ReadRingsFrom(kids, k, poly) ==
  IF k > Len(kids) THEN Ok(poly)
  ELSE IF kids[k].name # "LSG" THEN ReadRingsFrom(kids, k + 1, poly)
  ELSE ReadRing(kids, k, poly, ReadPath(kids[k], PtField),
                RequireEnum(kids[k], "A", 1, 9))

\* The checks that end ReadPolygon.
ReadPolygonChecks(rings) ==
  IF ~rings.ok THEN rings
  ELSE IF rings.val.outer = <<>> THEN Fail("ReadPolygon: missing exterior ring")
  ELSE IF Len(rings.val.outer) < 4 THEN Fail("ReadPolygon: exterior ring too small")
  ELSE IF \E r \in 1..Len(rings.val.inners) : Len(rings.val.inners[r]) < 4
  THEN Fail("ReadPolygon: interior ring too small")
  ELSE rings

\* ReadPolygon(x, polyType, ptType): attributes other than A are not looked at.
ReadPolygon(x, polyType) ==
  IF ~RequireEnum(x, "A", 1, 12).ok THEN Fail("Invalid attribute")
  ELSE IF RequireEnum(x, "A", 1, 12).val # polyType
  THEN Fail("ReadPolygon: invalid type")
  ELSE ReadPolygonChecks(ReadRingsFrom(x.kids, 1, NoPolygon))

\* ReadBoundary(x)
ReadBoundary(x) == ReadPolygon(x, PlnBoundary)

RECURSIVE ReadSwathPathFrom(_, _, _, _, _)
ReadSwathPoint(kids, k, firstPt, lastPt, pts, pt) ==
  IF ~pt.ok THEN pt
  ELSE IF pt.val.type = PtGuideA /\ (~firstPt \/ lastPt)
  THEN Fail("ReadSwathPath: unexpected point type")
  ELSE IF pt.val.type \in {PtGuidePoint, PtGuideB} /\ (firstPt \/ lastPt)
  THEN Fail("ReadSwathPath: unexpected point type")
  ELSE IF pt.val.type \notin {PtGuideA, PtGuidePoint, PtGuideB}
  THEN Fail("ReadSwathPath: unexpected point type")
  ELSE ReadSwathPathFrom(kids, k + 1, FALSE, lastPt \/ pt.val.type = PtGuideB,
                         Append(pts, pt.val.point))

\* The loop of ReadSwathPath over the children of the LSG.
ReadSwathPathFrom(kids, k, firstPt, lastPt, pts) ==
  IF k > Len(kids) THEN Ok(pts)
  ELSE IF kids[k].name # "PNT"
  THEN ReadSwathPathFrom(kids, k + 1, firstPt, lastPt, pts)
  ELSE ReadSwathPoint(kids, k, firstPt, lastPt, pts, ReadPoint(kids[k]))

\* ReadSwathPath(x): attributes other than A are logged and dropped.
ReadSwathPath(x) ==
  IF ~RequireEnum(x, "A", 1, 9).ok THEN Fail("Invalid attribute")
  ELSE IF RequireEnum(x, "A", 1, 9).val # LsgGuidance
  THEN Fail("ReadSwathPath: LSG type mismatch")
  ELSE ReadSwathPathFrom(x.kids, 1, TRUE, FALSE, <<>>)

\* The attributes of a GPN that ReadSwath keeps as they are: all but A, B,
\* C, E, F, G and I.
GpnOtherAttr(c) ==
  SelectSeq(c.attrs, LAMBDA a : a.k \notin {"A", "B", "C", "E", "F", "G", "I"})

\* The attributes E, F, G, I of a GPN must parse (tjg::get_attr throws).
GpnAttrsParse(c) ==
  \A i \in 1..Len(c.attrs) : c.attrs[i].k \in {"E", "F", "G", "I"} => c.attrs[i].v.t = "int"

RECURSIVE GpnPathFrom(_, _, _)
\* The loop of ReadSwath over the children of one GPN: every LSG read
\* replaces the path.
GpnPathFrom(kids, k, path) ==
  IF k > Len(kids) THEN Ok(path)
  ELSE IF kids[k].name # "LSG" THEN GpnPathFrom(kids, k + 1, path)
  ELSE IF ~ReadSwathPath(kids[k]).ok THEN ReadSwathPath(kids[k])
  ELSE GpnPathFrom(kids, k + 1, ReadSwathPath(kids[k]).val)

\* An optional that holds nothing.
Nullopt == [t |-> "nullopt"]

\* The value of attribute key of the GPN when it has one.
GpnOptional(c, key, was) == IF HasAttr(c, key) THEN AttrValue(c, key) ELSE was

NoSwath ==
  [name |-> S(""), type |-> 0, path |-> <<>>, otherAttr |-> <<>>,
   direction |-> Nullopt, extension |-> Nullopt, heading |-> Nullopt,
   method |-> Nullopt]

RECURSIVE ReadGuideFrom(_, _, _, _)
ReadGpn(kids, k, id, sw, c, path) ==
  IF sw.path # <<>> THEN Fail("ReadSwath: too many swaths")
  ELSE IF ~RequireStr(c, "A").ok THEN Fail("Invalid attribute")
  ELSE IF GetId("GPN", RequireStr(c, "A").val) # id THEN Fail("ReadSwath: id mismatch")
  ELSE IF ~RequireEnum(c, "C", 1, 5).ok THEN Fail("Invalid attribute")
  ELSE IF ~GpnAttrsParse(c) THEN Fail("get_attr: invalid attribute")
  ELSE IF ~path.ok THEN path
  ELSE ReadGuideFrom(kids, k + 1, id,
         [sw EXCEPT !.type = RequireEnum(c, "C", 1, 5).val,
                    !.otherAttr = @ \o GpnOtherAttr(c),
                    !.direction = GpnOptional(c, "E", @),
                    !.extension = GpnOptional(c, "F", @),
                    !.heading = GpnOptional(c, "G", @),
                    !.method = GpnOptional(c, "I", @),
                    !.path = path.val])

\* The loop of ReadSwath over the children of the GGP.
ReadGuideFrom(kids, k, id, sw) ==
  IF k > Len(kids) THEN Ok(sw)
  ELSE IF kids[k].name # "GPN" THEN ReadGuideFrom(kids, k + 1, id, sw)
  ELSE ReadGpn(kids, k, id, sw, kids[k], GpnPathFrom(kids[k].kids, 1, <<>>))

ReadSwathEnd(sw) ==
  IF ~sw.ok THEN sw
  ELSE IF sw.val.path = <<>> THEN Fail("ReadSwath: missing path")
  ELSE sw

\* ReadSwath(node): attributes of the GGP other than A, B are logged and
\* dropped; the unknown attributes of its GPN are kept in otherAttr.
ReadSwath(node) ==
  IF ~RequireStr(node, "A").ok THEN Fail("Invalid attribute")
  ELSE IF GetId("GGP", RequireStr(node, "A").val) < 0
  THEN Fail("ReadSwath: invalid guide id")
  ELSE IF ~RequireStr(node, "B").ok THEN Fail("Invalid attribute")
  ELSE ReadSwathEnd(ReadGuideFrom(node.kids, 1, GetId("GGP", RequireStr(node, "A").val),
                                  [NoSwath EXCEPT !.name = RequireStr(node, "B").val]))

\* ------------------------------------------- Field::sortByArea (FarmShp.cpp)
\* A geo point is the LatLon itself; the geometry predicates take it as
\* <<longitude, latitude>>.
GeoPts(path) == [k \in 1..Len(path) |-> <<path[k].longitude, path[k].latitude>>]

MakeRing(rg) == [k \in 1..Len(rg) |-> LatLon(rg[k][2], rg[k][1])]

Reverse(s) == [k \in 1..Len(s) |-> s[Len(s) + 1 - k]]

CloseIfOpen(rg) ==
  IF Len(rg) > 2 /\ rg[1] # rg[Len(rg)] THEN Append(rg, rg[1]) ELSE rg

Oriented(rg, interior) ==
  IF AreaSign(rg) = (IF interior THEN -1 ELSE 1) THEN Reverse(rg) ELSE rg

\* ggl::correct of a ring: closed when it is not, then reversed when it
\* runs the wrong way round.
CorrectRing(rg, interior) == Oriented(CloseIfOpen(rg), interior)

\* MakeGeoRing(path)
MakeGeoRing(path) ==
  IF Validity("Ring", CorrectRing(GeoPts(path), FALSE)) # "no_failure"
  THEN Fail("MakeGeoRing: not a ring")
  ELSE Ok(CorrectRing(GeoPts(path), FALSE))

GeoValid(g) ==
  IF Validity("Polygon", g) # "no_failure" THEN Fail("Geo(Polygon): invalid polygon")
  ELSE Ok(g)

\* Geo(const Polygon&): every ring through MakeGeoRing, then ggl::correct
\* and ggl::is_valid of the polygon.
Geo(poly) ==
  IF \E r \in 1..Len(PolygonRings(poly)) : ~MakeGeoRing(PolygonRings(poly)[r]).ok
  THEN Fail("MakeGeoRing: not a ring")
  ELSE GeoValid([outer  |-> MakeGeoRing(poly.outer).val,
                 inners |-> [r \in 1..Len(poly.inners) |->
                               CorrectRing(MakeGeoRing(poly.inners[r]).val, TRUE)]])

\* MakePolygon(const geo::Polygon&)
MakePolygon(g) ==
  [outer |-> MakeRing(g.outer),
   inners |-> [r \in 1..Len(g.inners) |-> MakeRing(g.inners[r])]]

RECURSIVE SumShoelace(_, _)
SumShoelace(rings, k) ==
  IF k = 0 THEN 0
  ELSE SumShoelace(rings, k - 1) + Shoelace(rings[k], Len(rings[k]))

\* ggl::area of a polygon, doubled: positive for a clockwise outer ring,
\* less its holes.
GeoArea(g) == 0 - SumShoelace(PolygonRings(g), 1 + Len(g.inners))

RECURSIVE SortedByArea(_)
\* std::ranges::sort by decreasing area.
SortedByArea(gs) ==
  IF gs = <<>> THEN <<>>
  ELSE LET m == CHOOSE i \in 1..Len(gs) :
                  /\ \A j \in 1..Len(gs) : GeoArea(gs[j]) <= GeoArea(gs[i])
                  /\ \A j \in 1..(i - 1) : GeoArea(gs[j]) < GeoArea(gs[i])
       IN <<gs[m]>> \o SortedByArea(SubSeq(gs, 1, m - 1) \o SubSeq(gs, m + 1, Len(gs)))

\* Field::sortByArea on the parts of a field.
SortByArea(parts) ==
  IF \E p \in 1..Len(parts) : ~Geo(parts[p]).ok
  THEN Fail("Geo(Polygon): invalid polygon")
  ELSE Ok([p \in 1..Len(parts) |->
             MakePolygon(SortedByArea([q \in 1..Len(parts) |-> Geo(parts[q]).val])[p])])

\* ----------------------------------------------- FarmDb::ReadXml, the loop
NoDb ==
  [versionMajor |-> 3, versionMinor |-> 0, dataTransferOrigin |-> -1,
   swVendor |-> S(""), swVersion |-> S(""),
   customers |-> <<>>, farms |-> <<>>, fields |-> <<>>, otherAttr |-> <<>>,
   custDb |-> <<>>, farmDb |-> <<>>, fieldDb |-> <<>>]

Customer(name) == [name |-> name, farms |-> <<>>, otherAttr |-> <<>>]

Farm(name) == [name |-> name, customer |-> 0, fields |-> <<>>, otherAttr |-> <<>>]

Field(name) ==
  [name |-> name, customer |-> 0, farm |-> 0, parts |-> <<>>, swaths |-> <<>>,
   otherAttr |-> <<>>]

RootKeys ==
  {"VersionMajor", "VersionMinor", "DataTransferOrigin",
   "ManagementSoftwareManufacturer", "ManagementSoftwareVersion"}

OtherThan(attrs, keys) == SelectSeq(attrs, LAMBDA a : a.k \notin keys)

RootOptional(root, key, was) == IF HasAttr(root, key) THEN AttrValue(root, key) ELSE was

\* The head of FarmDb::ReadXml: the root element and its attributes.
ReadRoot(doc) ==
  IF doc.name # "ISO11783_TaskData" THEN Fail("missing root")
  ELSE IF ~RequireNum(doc, "VersionMajor").ok \/ ~RequireNum(doc, "VersionMinor").ok
  THEN Fail("Invalid attribute")
  ELSE IF HasAttr(doc, "DataTransferOrigin") /\ AttrValue(doc, "DataTransferOrigin").t # "int"
  THEN Fail("get_attr: invalid attribute")
  ELSE IF RequireNum(doc, "VersionMajor").val < 0 \/ RequireNum(doc, "VersionMinor").val < 0
  THEN Fail("ReadFarmDb: missing VersionMajor/VersionMinor")
  ELSE Ok([NoDb EXCEPT
             !.versionMajor = RequireNum(doc, "VersionMajor").val,
             !.versionMinor = RequireNum(doc, "VersionMinor").val,
             !.dataTransferOrigin =
                IF HasAttr(doc, "DataTransferOrigin")
                THEN AttrValue(doc, "DataTransferOrigin").n ELSE -1,
             !.swVendor = RootOptional(doc, "ManagementSoftwareManufacturer", @),
             !.swVersion = RootOptional(doc, "ManagementSoftwareVersion", @),
             !.otherAttr = OtherThan(doc.attrs, RootKeys)])

\* The CTR branch.
ReadCustomer(db, c) ==
  IF ~RequireStr(c, "A").ok THEN Fail("Invalid attribute")
  ELSE IF GetId("CTR", RequireStr(c, "A").val) < 0
  THEN Fail("ReadFarmDb: invalid customer id")
  ELSE IF FindIndex(db.custDb, GetId("CTR", RequireStr(c, "A").val)) >= 0
  THEN Fail("ReadFarmDb: duplicate customer")
  ELSE IF ~RequireStr(c, "B").ok THEN Fail("Invalid attribute")
  ELSE Ok([db EXCEPT
             !.custDb = Append(@, GetId("CTR", RequireStr(c, "A").val)),
             !.customers = Append(@, [Customer(RequireStr(c, "B").val) EXCEPT
                                        !.otherAttr = OtherThan(c.attrs, {"A", "B"})])])

RECURSIVE FarmAttrsFrom(_, _, _, _)
\* The attribute loop of the FRM branch.
FarmAttrsFrom(attrs, k, custDb, farm) ==
  IF k > Len(attrs) THEN Ok(farm)
  ELSE IF attrs[k].k \in {"A", "B"} THEN FarmAttrsFrom(attrs, k + 1, custDb, farm)
  ELSE IF attrs[k].k = "I"
  THEN IF FindIndex(custDb, GetId("CTR", attrs[k].v)) < 0
       THEN Fail("ReadFarm: invalid customer id")
       ELSE FarmAttrsFrom(attrs, k + 1, custDb,
              [farm EXCEPT !.customer = FindIndex(custDb, GetId("CTR", attrs[k].v)) + 1])
  ELSE FarmAttrsFrom(attrs, k + 1, custDb,
         [farm EXCEPT !.otherAttr = Append(@, attrs[k])])

\* The farm enters the database and its customer's list of farms.
FarmStored(db, id, farm) ==
  IF ~farm.ok THEN farm
  ELSE Ok([db EXCEPT
             !.farmDb = Append(@, id),
             !.farms = Append(@, farm.val),
             !.customers =
                IF farm.val.customer # 0
                THEN [@ EXCEPT ![farm.val.customer].farms = Append(@, Len(db.farms) + 1)]
                ELSE @])

\* Mutant of ReadFarm: a farm id that is already in farmDb is accepted.
ReadFarmAgain(db, c) ==
  IF ~RequireStr(c, "A").ok THEN Fail("Invalid attribute")
  ELSE IF GetId("FRM", RequireStr(c, "A").val) < 0
  THEN Fail("ReadFarmDb: invalid farm id")
  ELSE IF ~RequireStr(c, "B").ok THEN Fail("Invalid attribute")
  ELSE FarmStored(db, GetId("FRM", RequireStr(c, "A").val),
                  FarmAttrsFrom(c.attrs, 1, db.custDb, Farm(RequireStr(c, "B").val)))

\* The FRM branch.
ReadFarm(db, c) ==
  IF ~RequireStr(c, "A").ok THEN Fail("Invalid attribute")
  ELSE IF GetId("FRM", RequireStr(c, "A").val) < 0
  THEN Fail("ReadFarmDb: invalid farm id")
  ELSE IF FindIndex(db.farmDb, GetId("FRM", RequireStr(c, "A").val)) >= 0
  THEN Fail("ReadFarmDb: duplicate farm")
  ELSE IF ~RequireStr(c, "B").ok THEN Fail("Invalid attribute")
  ELSE FarmStored(db, GetId("FRM", RequireStr(c, "A").val),
                  FarmAttrsFrom(c.attrs, 1, db.custDb, Farm(RequireStr(c, "B").val)))

RECURSIVE FieldAttrsFrom(_, _, _, _)
\* The attribute loop of the PFD branch.
FieldAttrsFrom(attrs, k, db, field) ==
  IF k > Len(attrs) THEN Ok(field)
  ELSE IF attrs[k].k \in {"A", "C", "D"} THEN FieldAttrsFrom(attrs, k + 1, db, field)
  ELSE IF attrs[k].k = "E"
  THEN IF FindIndex(db.custDb, GetId("CTR", attrs[k].v)) < 0
       THEN Fail("ReadFarmDb: invalid customer id")
       ELSE IF field.customer # 0
       THEN Fail("ReadFarmDb: field already belongs to a customer")
       ELSE FieldAttrsFrom(attrs, k + 1, db,
              [field EXCEPT !.customer = FindIndex(db.custDb, GetId("CTR", attrs[k].v)) + 1])
  ELSE IF attrs[k].k = "F"
  THEN IF FindIndex(db.farmDb, GetId("FRM", attrs[k].v)) < 0
       THEN Fail("ReadFarmDb: invalid farm id")
       ELSE IF field.farm # 0
       THEN Fail("ReadFarmDb: field already belongs to a farm")
       ELSE FieldAttrsFrom(attrs, k + 1, db,
              [field EXCEPT !.farm = FindIndex(db.farmDb, GetId("FRM", attrs[k].v)) + 1])
  ELSE FieldAttrsFrom(attrs, k + 1, db,
         [field EXCEPT !.otherAttr = Append(@, attrs[k])])

RECURSIVE FieldKidsFrom(_, _, _)
FieldPart(kids, k, field, part) ==
  IF ~part.ok THEN part
  ELSE FieldKidsFrom(kids, k + 1, [field EXCEPT !.parts = Append(@, part.val)])

FieldSwath(kids, k, field, swath) ==
  IF ~swath.ok THEN swath
  ELSE FieldKidsFrom(kids, k + 1, [field EXCEPT !.swaths = Append(@, swath.val)])

\* The loop of the PFD branch over the children of the field.
FieldKidsFrom(kids, k, field) ==
  IF k > Len(kids) THEN Ok(field)
  ELSE IF kids[k].name = "PLN" THEN FieldPart(kids, k, field, ReadBoundary(kids[k]))
  ELSE IF kids[k].name = "GGP" THEN FieldSwath(kids, k, field, ReadSwath(kids[k]))
  ELSE FieldKidsFrom(kids, k + 1, field)

\* field->sortByArea(), then the field enters the database and its farm's
\* list of fields.
FieldStored(db, id, field, parts) ==
  IF ~parts.ok THEN parts
  ELSE Ok([db EXCEPT
             !.fieldDb = Append(@, id),
             !.fields = Append(@, [field EXCEPT !.parts = parts.val]),
             !.farms =
                IF field.farm # 0
                THEN [@ EXCEPT ![field.farm].fields = Append(@, Len(db.fields) + 1)]
                ELSE @])

FieldSorted(db, id, field) ==
  IF ~field.ok THEN field
  ELSE FieldStored(db, id, field.val, SortByArea(field.val.parts))

\* Mutant of FieldChecked: the customers of the field and of its farm are
\* not compared.
FieldUnchecked(db, c, id, field) ==
  IF ~field.ok THEN field
  ELSE FieldSorted(db, id, FieldKidsFrom(c.kids, 1, field.val))

\* The comparison of the field's customer with its farm's customer.
FieldChecked(db, c, id, field) ==
  IF ~field.ok THEN field
  ELSE IF field.val.farm # 0 /\ db.farms[field.val.farm].customer # field.val.customer
  THEN Fail("ReadFarmDb: field/farm customer mismatch")
  ELSE FieldSorted(db, id, FieldKidsFrom(c.kids, 1, field.val))

\* The PFD branch.
ReadField(db, c) ==
  IF ~RequireStr(c, "A").ok THEN Fail("Invalid attribute")
  ELSE IF GetId("PFD", RequireStr(c, "A").val) < 0
  THEN Fail("ReadFarmDb: invalid field id")
  ELSE IF FindIndex(db.fieldDb, GetId("PFD", RequireStr(c, "A").val)) >= 0
  THEN Fail("ReadFarmDb: duplicate field")
  ELSE IF ~RequireNum(c, "D").ok THEN Fail("Invalid attribute")
  ELSE IF RequireNum(c, "D").val # 0 THEN Fail("ReadFarmDb: non-zero field area")
  ELSE IF ~RequireStr(c, "C").ok THEN Fail("Invalid attribute")
  ELSE FieldChecked(db, c, GetId("PFD", RequireStr(c, "A").val),
                    FieldAttrsFrom(c.attrs, 1, db, Field(RequireStr(c, "C").val)))

\* One turn of the loop over the children of the root; a VPN and any other
\* element leave the database as it is.
ReadChild(db, c) ==
  IF c.name = "CTR" THEN ReadCustomer(db, c)
  ELSE IF c.name = "FRM" THEN ReadFarm(db, c)
  ELSE IF c.name = "PFD" THEN ReadField(db, c)
  ELSE Ok(db)

\* ------------------------------------------------------------- CreateDoc
\* WritePoint
WritePoint(pt, type) ==
  El("PNT", <<At("A", I(type)), At("C", I(pt.latitude)), At("D", I(pt.longitude))>>, <<>>)

\* WritePath
WritePath(path, lsgType, ptType) ==
  El("LSG", <<At("A", I(lsgType))>>,
     [k \in 1..Len(path) |-> WritePoint(path[k], ptType)])

\* Mutant of WriteSwathPath: the last point is written as the points
\* before it.
WriteSwathPathNoB(path) ==
  El("LSG", <<At("A", I(LsgGuidance))>>,
     [k \in 1..Len(path) |->
        WritePoint(path[k], IF k = 1 THEN PtGuideA ELSE PtGuidePoint)])

\* WriteSwathPath
WriteSwathPath(path) ==
  El("LSG", <<At("A", I(LsgGuidance))>>,
     [k \in 1..Len(path) |->
        WritePoint(path[k], IF k = 1 THEN PtGuideA
                            ELSE IF k = Len(path) THEN PtGuideB
                            ELSE PtGuidePoint)])

\* WritePolygon, as WriteBoundary calls it
WriteBoundary(poly) ==
  El("PLN", <<At("A", I(PlnBoundary))>>,
     <<WritePath(poly.outer, LsgExterior, PtField)>> \o
     [r \in 1..Len(poly.inners) |-> WritePath(poly.inners[r], LsgInterior, PtField)])

ValueOr(opt, default) == IF opt = Nullopt THEN default ELSE opt

\* WriteSwath: Direction::Both and Extension::Both are 1, Method::NoGps is 0.
WriteSwath(swath, id) ==
  El("GGP",
     <<At("A", Id("GGP", id)),
       At("B", IF swath.name = S("") THEN Id("Swath", id) ELSE swath.name)>>,
     <<El("GPN",
          <<At("A", Id("GPN", id)),
            At("B", IF swath.name = S("") THEN Id("Swath", id) ELSE swath.name),
            At("C", I(swath.type)),
            At("E", ValueOr(swath.direction, I(1))),
            At("F", ValueOr(swath.extension, I(1))),
            At("G", ValueOr(swath.heading, I(0))),
            At("I", ValueOr(swath.method, I(0)))>> \o swath.otherAttr,
          <<WriteSwathPath(swath.path)>>)>>)

\* WriteCustomer
WriteCustomer(cust, id) ==
  El("CTR", <<At("A", Id("CTR", id)), At("B", cust.name)>> \o cust.otherAttr, <<>>)

\* WriteFarm
WriteFarm(farm, id, custId) ==
  El("FRM",
     <<At("A", Id("FRM", id)), At("B", farm.name)>>
       \o (IF custId # 0 THEN <<At("I", Id("CTR", custId))>> ELSE <<>>)
       \o farm.otherAttr,
     <<>>)

RECURSIVE SwathsBefore(_, _)
\* The value of swathId when field i is written.
SwathsBefore(fields, i) ==
  IF i <= 1 THEN 0 ELSE SwathsBefore(fields, i - 1) + Len(fields[i - 1].swaths)

\* Mutant of WriteField: the swaths of every field are numbered from 1.
WriteFieldFromOne(field, id, custId, farmId, swathId) ==
  El("PFD",
     <<At("A", Id("PFD", id)), At("C", field.name), At("D", I(0))>>
       \o (IF custId # 0 THEN <<At("E", Id("CTR", custId))>> ELSE <<>>)
       \o (IF farmId # 0 THEN <<At("F", Id("FRM", farmId))>> ELSE <<>>)
       \o field.otherAttr,
     [p \in 1..Len(field.parts) |-> WriteBoundary(field.parts[p])] \o
     [s \in 1..Len(field.swaths) |-> WriteSwath(field.swaths[s], s)])

\* WriteField
WriteField(field, id, custId, farmId, swathId) ==
  El("PFD",
     <<At("A", Id("PFD", id)), At("C", field.name), At("D", I(0))>>
       \o (IF custId # 0 THEN <<At("E", Id("CTR", custId))>> ELSE <<>>)
       \o (IF farmId # 0 THEN <<At("F", Id("FRM", farmId))>> ELSE <<>>)
       \o field.otherAttr,
     [p \in 1..Len(field.parts) |-> WriteBoundary(field.parts[p])] \o
     [s \in 1..Len(field.swaths) |-> WriteSwath(field.swaths[s], swathId + s)])

\* The table of VPN elements CreateDoc writes, whatever was read.
NumValues == 9

ValueUnits == <<"l", "kg", "l/ha", "kg/ha", "sds/m^2", "mm", "N/m", "sds", "deg">>

ValueScale == <<"0.001", "0.001", "0.01", "0.01", "1", "1", "1", "1", "1">>

ValueDigits == <<2, 2, 2, 2, 0, 0, 0, 0, 0>>

WriteValue(i) ==
  El("VPN", <<At("A", Id("VPN", i)), At("B", I(0)), At("C", S(ValueScale[i])),
              At("D", I(ValueDigits[i])), At("E", S(ValueUnits[i]))>>, <<>>)

\* CreateDoc(db): findCustId and findFarmId give the position in the
\* database, which is what a reference holds here.
CreateDoc(db) ==
  El("ISO11783_TaskData",
     db.otherAttr \o
     <<At("VersionMajor", I(db.versionMajor)),
       At("VersionMinor", I(db.versionMinor)),
       At("ManagementSoftwareManufacturer", db.swVendor),
       At("ManagementSoftwareVersion", db.swVersion)>> \o
     (IF db.dataTransferOrigin # -1
      THEN <<At("DataTransferOrigin", I(db.dataTransferOrigin))>> ELSE <<>>),
     [i \in 1..Len(db.customers) |-> WriteCustomer(db.customers[i], i)] \o
     [i \in 1..Len(db.farms) |-> WriteFarm(db.farms[i], i, db.farms[i].customer)] \o
     [i \in 1..Len(db.fields) |->
        WriteField(db.fields[i], i, db.fields[i].customer, db.fields[i].farm,
                   SwathsBefore(db.fields, i))] \o
     [i \in 1..NumValues |-> WriteValue(i)])

\* ------------------------------------------------- documents that are read
\* The element kind that carries an attribute no reader interprets.
ElementKinds ==
  {"root", "CTR", "FRM", "PFD", "PLN", "LSG", "PNT", "GGP", "GPN", "VPN"}

Extra(kind, on) == IF kind = on THEN <<At("X", S("x"))>> ELSE <<>>

Pnt(type, p, on) ==
  El("PNT", <<At("A", I(type)), At("C", I(p[1])), At("D", I(p[2]))>> \o Extra("PNT", on),
     <<>>)

Lsg(type, ptType, pts, on) ==
  El("LSG", <<At("A", I(type))>> \o Extra("LSG", on),
     [k \in 1..Len(pts) |-> Pnt(ptType, pts[k], on)])

Pln(lsgs, on) == El("PLN", <<At("A", I(PlnBoundary))>> \o Extra("PLN", on), lsgs)

\* Rings as lists of <<latitude, longitude>>, moved by <<dLat, dLon>>.
Moved(pts, d) == [k \in 1..Len(pts) |-> <<pts[k][1] + d[1], pts[k][2] + d[2]>>]

SquareCw == <<<<0, 0>>, <<4, 0>>, <<4, 4>>, <<0, 4>>, <<0, 0>>>>

SquareOpen == <<<<0, 0>>, <<4, 0>>, <<4, 4>>, <<0, 4>>>>

SquareCcw == <<<<0, 0>>, <<0, 4>>, <<4, 4>>, <<4, 0>>, <<0, 0>>>>

Triangle == <<<<0, 0>>, <<4, 0>>, <<4, 4>>>>

Bowtie == <<<<0, 0>>, <<4, 4>>, <<4, 0>>, <<0, 4>>, <<0, 0>>>>

HoleCcw == <<<<1, 1>>, <<1, 2>>, <<2, 2>>, <<2, 1>>, <<1, 1>>>>

HoleOpen == <<<<1, 1>>, <<1, 2>>, <<2, 2>>, <<2, 1>>>>

HoleSmall == <<<<1, 1>>, <<1, 2>>, <<1, 1>>>>

SmallSquare == <<<<6, 6>>, <<7, 6>>, <<7, 7>>, <<6, 7>>, <<6, 6>>>>

Shapes ==
  {"closed", "open", "ccw", "triangle", "bowtie", "no exterior", "two exteriors",
   "empty exterior first", "hole", "open hole", "small hole", "two parts"}

Exterior(pts, d, on) == Lsg(LsgExterior, PtField, Moved(pts, d), on)

Interior(pts, d, on) == Lsg(LsgInterior, PtField, Moved(pts, d), on)

\* The PLN children of the first field.
Plns(shape, d, on) ==
  CASE shape = "closed" -> <<Pln(<<Exterior(SquareCw, d, on)>>, on)>>
    [] shape = "open" -> <<Pln(<<Exterior(SquareOpen, d, on)>>, on)>>
    [] shape = "ccw" -> <<Pln(<<Exterior(SquareCcw, d, on)>>, on)>>
    [] shape = "triangle" -> <<Pln(<<Exterior(Triangle, d, on)>>, on)>>
    [] shape = "bowtie" -> <<Pln(<<Exterior(Bowtie, d, on)>>, on)>>
    [] shape = "no exterior" -> <<Pln(<<Interior(HoleCcw, d, on)>>, on)>>
    [] shape = "two exteriors" ->
         <<Pln(<<Exterior(SquareCw, d, on), Exterior(SmallSquare, d, on)>>, on)>>
    [] shape = "empty exterior first" ->
         <<Pln(<<Exterior(<<>>, d, on), Exterior(SquareCw, d, on)>>, on)>>
    [] shape = "hole" -> <<Pln(<<Exterior(SquareCw, d, on), Interior(HoleCcw, d, on)>>, on)>>
    [] shape = "open hole" -> <<Pln(<<Interior(HoleOpen, d, on), Exterior(SquareCw, d, on)>>, on)>>
    [] shape = "small hole" -> <<Pln(<<Exterior(SquareCw, d, on), Interior(HoleSmall, d, on)>>, on)>>
    [] shape = "two parts" ->
         <<Pln(<<Exterior(SmallSquare, d, on)>>, on), Pln(<<Exterior(SquareOpen, d, on)>>, on)>>

\* Where the geometry lies: within the ranges of latitude and longitude,
\* beyond 90 degrees of latitude, beyond 180 degrees of longitude, and on
\* the meridian of -180 degrees.
Places == {<<10, 20>>, <<88, 20>>, <<10, 178>>, <<10, -180>>}

\* A guidance pattern with one AB line.
Ggp(d, on) ==
  El("GGP", <<At("A", Id("GGP", 1)), At("B", S("AB"))>> \o Extra("GGP", on),
     <<El("GPN",
          <<At("A", Id("GPN", 1)), At("B", S("AB")), At("C", I(1)), At("D", I(2)),
            At("G", I(90))>> \o Extra("GPN", on),
          <<El("LSG", <<At("A", I(LsgGuidance))>> \o Extra("LSG", on),
               <<Pnt(PtGuideA, <<d[1], d[2]>>, on),
                 Pnt(PtGuideB, <<d[1] + 4, d[2] + 4>>, on)>>)>>)>>)

Ctr(id, on) ==
  El("CTR", <<At("A", Id("CTR", id)), At("B", Id("Customer", id))>> \o Extra("CTR", on), <<>>)

\* A farm of customer cust, 0 for a farm without the attribute I.
Frm(id, cust, on) ==
  El("FRM",
     <<At("A", Id("FRM", id)), At("B", Id("Farm", id))>>
       \o Extra("FRM", on)
       \o (IF cust # 0 THEN <<At("I", Id("CTR", cust))>> ELSE <<>>),
     <<>>)

RefAttrs(cust, farm, farmFirst) ==
  IF farmFirst
  THEN (IF farm # 0 THEN <<At("F", Id("FRM", farm))>> ELSE <<>>)
         \o (IF cust # 0 THEN <<At("E", Id("CTR", cust))>> ELSE <<>>)
  ELSE (IF cust # 0 THEN <<At("E", Id("CTR", cust))>> ELSE <<>>)
         \o (IF farm # 0 THEN <<At("F", Id("FRM", farm))>> ELSE <<>>)

\* A field of customer cust and farm farm, 0 for none.
Pfd(id, cust, farm, farmFirst, kids, on) ==
  El("PFD",
     <<At("A", Id("PFD", id)), At("C", Id("Field", id)), At("D", I(0))>>
       \o Extra("PFD", on) \o RefAttrs(cust, farm, farmFirst),
     kids)

Vpn(on) ==
  El("VPN", <<At("A", Id("VPN", 1)), At("B", I(0)), At("C", S("0.001")),
              At("D", I(2)), At("E", S("l"))>> \o Extra("VPN", on), <<>>)

Layouts ==
  {"consistent", "other customer", "no customer", "farm without customer",
   "farm first", "forward reference", "duplicate", "renumbered", "interleaved"}

\* The children of the root; kids are the children of the first field.
Children(layout, kids, on) ==
  CASE layout = "consistent" ->
         <<Ctr(1, on), Ctr(2, on), Frm(1, 1, on), Frm(2, 0, on),
           Pfd(1, 1, 1, FALSE, kids, on), Pfd(2, 0, 2, FALSE, <<>>, on),
           Pfd(3, 2, 0, FALSE, <<>>, on), Vpn(on)>>
    [] layout = "other customer" ->
         <<Ctr(1, on), Ctr(2, on), Frm(1, 1, on), Pfd(1, 2, 1, FALSE, kids, on)>>
    [] layout = "no customer" ->
         <<Ctr(1, on), Frm(1, 1, on), Pfd(1, 0, 1, FALSE, kids, on)>>
    [] layout = "farm without customer" ->
         <<Ctr(1, on), Frm(1, 0, on), Pfd(1, 1, 1, FALSE, kids, on)>>
    [] layout = "farm first" ->
         <<Vpn(on), Ctr(1, on), Frm(1, 1, on), Pfd(1, 1, 1, TRUE, kids, on)>>
    [] layout = "forward reference" ->
         <<Frm(1, 1, on), Ctr(1, on), Pfd(1, 1, 1, FALSE, kids, on)>>
    [] layout = "duplicate" ->
         <<Ctr(1, on), Ctr(1, on), Pfd(1, 1, 0, FALSE, kids, on)>>
    [] layout = "renumbered" ->
         <<Ctr(5, on), Ctr(3, on), Frm(7, 3, on), Pfd(2, 3, 7, FALSE, kids, on),
           Vpn(on)>>
    [] layout = "interleaved" ->
         <<Ctr(1, on), Frm(1, 1, on), Pfd(1, 1, 1, FALSE, kids, on),
           Ctr(2, on), Frm(2, 2, on), Frm(3, 1, on), Pfd(2, 2, 2, FALSE, <<>>, on),
           Pfd(3, 1, 3, TRUE, <<>>, on), Pfd(4, 1, 1, FALSE, <<>>, on)>>
    [] layout = "duplicate farm" ->
         <<Ctr(1, on), Frm(1, 1, on), Frm(1, 0, on), Pfd(1, 1, 1, FALSE, kids, on)>>
    [] layout = "duplicate field" ->
         <<Ctr(1, on), Frm(1, 1, on), Pfd(1, 1, 1, FALSE, kids, on),
           Pfd(1, 0, 0, FALSE, <<>>, on)>>
    [] layout = "farm of unknown customer" ->
         <<Ctr(1, on), Frm(1, 2, on), Pfd(1, 0, 0, FALSE, kids, on)>>
    [] layout = "field of unknown customer" ->
         <<Ctr(1, on), Pfd(1, 2, 0, FALSE, kids, on)>>
    [] layout = "field of unknown farm" ->
         <<Ctr(1, on), Frm(1, 0, on), Pfd(1, 0, 2, FALSE, kids, on)>>
    [] layout = "field before farm" ->
         <<Ctr(1, on), Pfd(1, 0, 1, FALSE, kids, on), Frm(1, 0, on)>>
    [] layout = "field before customer" ->
         <<Pfd(1, 1, 0, FALSE, kids, on), Ctr(1, on)>>

Doc(layout, shape, d, on) ==
  El("ISO11783_TaskData",
     <<At("VersionMajor", I(3)), At("VersionMinor", I(0)),
       At("ManagementSoftwareManufacturer", S("vendor"))>> \o Extra("root", on),
     Children(layout, Plns(shape, d, on) \o <<Ggp(d, on)>>, on))

Docs ==
  {Doc(layout, shape, d, on) :
     layout \in Layouts, shape \in Shapes, d \in Places, on \in ElementKinds \cup {"none"}}

\* Documents with a repeated id or with a reference to an element that is
\* not declared, or declared only later.
RefLayouts ==
  {"duplicate farm", "duplicate field", "farm of unknown customer",
   "field of unknown customer", "field of unknown farm", "field before farm",
   "field before customer"}

RefDocs == {Doc(layout, "closed", <<10, 20>>, "none") : layout \in RefLayouts}

\* A guidance pattern with the given id and name whose line has the given
\* points, the first GuideA, the last GuideB, the others GuidePoint.
GuideOf(id, name, pts) ==
  El("GGP", <<At("A", Id("GGP", id)), At("B", S(name))>>,
     <<El("GPN", <<At("A", Id("GPN", id)), At("B", S(name)), At("C", I(1))>>,
          <<El("LSG", <<At("A", I(LsgGuidance))>>,
               [k \in 1..Len(pts) |->
                  Pnt(IF k = 1 THEN PtGuideA
                      ELSE IF k = Len(pts) THEN PtGuideB ELSE PtGuidePoint,
                      pts[k], "none")])>>)>>)

\* Documents with several guidance patterns: in one field and in two, with
\* ids that repeat, with one, two and three points.
GuideFields ==
  {<<Pfd(1, 1, 1, FALSE,
         Plns("closed", <<10, 20>>, "none")
           \o <<GuideOf(3, "AB", <<<<10, 20>>, <<14, 24>>>>),
                GuideOf(3, "CD", <<<<10, 20>>, <<14, 20>>, <<14, 24>>>>)>>, "none")>>,
   <<Pfd(4, 1, 1, FALSE,
         <<GuideOf(2, "AB", <<<<10, 20>>, <<14, 24>>>>)>>
           \o Plns("hole", <<10, 20>>, "none"), "none"),
     Pfd(2, 1, 0, FALSE, Plns("two parts", <<10, 20>>, "none"), "none"),
     Pfd(3, 0, 0, FALSE,
         <<GuideOf(2, "CD", <<<<11, 21>>>>),
           GuideOf(1, "AB", <<<<10, 24>>, <<12, 22>>, <<14, 20>>>>)>>, "none")>>}

GuideDocs ==
  {El("ISO11783_TaskData",
      <<At("VersionMajor", I(3)), At("VersionMinor", I(0)),
        At("DataTransferOrigin", I(1))>>,
      <<Ctr(1, on), Frm(1, 1, on)>> \o fields) :
     fields \in GuideFields, on \in {"none", "CTR", "FRM"}}

\* ------------------------------------------- reading and writing a document
XmlInit ==
  /\ xdoc \in Docs \cup RefDocs \cup GuideDocs
  /\ xpc = "root" /\ xi = 0 /\ xdb = NoDb /\ xerr = "none"
  /\ xout = <<>> /\ xpolys = <<>> /\ xback = <<>>
  /\ RingIdle /\ PipeIdle /\ SimpIdle /\ ZipIdle /\ ShpIdle /\ CliIdle /\ MapIdle /\ PathIdle

\* A throw out of FarmDb::ReadXml: no database is returned.
XmlThrow(msg) ==
  /\ xpc' = "error" /\ xerr' = msg /\ xdb' = NoDb
  /\ UNCHANGED <<xdoc, xi, xout>>

\* FarmDb::ReadXml up to the loop over the children of the root.
XR_Root ==
  /\ xpc = "root"
  /\ IF ReadRoot(xdoc).ok
     THEN /\ xdb' = ReadRoot(xdoc).val /\ xpc' = "loop" /\ xi' = 1
          /\ UNCHANGED <<xdoc, xerr, xout>>
     ELSE XmlThrow(ReadRoot(xdoc).msg)
  /\ UNCHANGED <<xpolys, xback, notXmlVars>>

RECURSIVE PolygonsRead(_, _)
\* What ReadBoundary made of the PLN children of a field, up to the first
\* it threw on.
PolygonsRead(kids, k) ==
  IF k > Len(kids) THEN <<>>
  ELSE IF kids[k].name # "PLN" THEN PolygonsRead(kids, k + 1)
  ELSE <<[pln |-> kids[k], res |-> ReadBoundary(kids[k])]>>
         \o (IF ReadBoundary(kids[k]).ok THEN PolygonsRead(kids, k + 1) ELSE <<>>)

\* Whether the PFD branch gets as far as the children of the field.
ReachesKids(db, c) ==
  /\ c.name = "PFD"
  /\ ReadField(db, [c EXCEPT !.kids = <<>>]).ok

\* One turn of the loop over the children of the root.
XR_Child ==
  /\ xpc = "loop" /\ xi <= Len(xdoc.kids)
  /\ IF ReadChild(xdb, xdoc.kids[xi]).ok
     THEN /\ xdb' = ReadChild(xdb, xdoc.kids[xi]).val /\ xi' = xi + 1
          /\ UNCHANGED <<xdoc, xpc, xerr, xout>>
     ELSE XmlThrow(ReadChild(xdb, xdoc.kids[xi]).msg)
  /\ xpolys' = IF ReachesKids(xdb, xdoc.kids[xi])
               THEN xpolys \o PolygonsRead(xdoc.kids[xi].kids, 1)
               ELSE xpolys
  /\ UNCHANGED <<xback, notXmlVars>>

\* The loop is over: the database is returned.
XR_Return ==
  /\ xpc = "loop" /\ xi > Len(xdoc.kids)
  /\ xpc' = "read"
  /\ UNCHANGED <<xdoc, xi, xdb, xerr, xout, xpolys>>
  /\ UNCHANGED <<xback, notXmlVars>>

\* FarmDb::writeXml: the document CreateDoc makes of the database.
XW_CreateDoc ==
  /\ xpc = "read"
  /\ xout' = CreateDoc(xdb) /\ xpc' = "written"
  /\ UNCHANGED <<xdoc, xi, xdb, xerr, xpolys>>
  /\ UNCHANGED <<xback, notXmlVars>>

RECURSIVE ReadXmlFrom(_, _, _)
\* The loop of FarmDb::ReadXml over the children of the root, from child k.
ReadXmlFrom(db, kids, k) ==
  IF k > Len(kids) THEN Ok(db)
  ELSE LET child == ReadChild(db, kids[k])
       IN IF child.ok THEN ReadXmlFrom(child.val, kids, k + 1) ELSE child

\* FarmDb::ReadXml of a document, from the root to the return or the throw.
ReadXmlOf(doc) ==
  IF ReadRoot(doc).ok THEN ReadXmlFrom(ReadRoot(doc).val, doc.kids, 1)
  ELSE ReadRoot(doc)

\* FarmDb::ReadXml of the file writeXml wrote.
XR_ReadBack ==
  /\ xpc = "written"
  /\ xback' = ReadXmlOf(xout) /\ xpc' = "read back"
  /\ UNCHANGED <<xdoc, xi, xdb, xerr, xout, xpolys>>
  /\ UNCHANGED notXmlVars

XmlNext == XR_Root \/ XR_Child \/ XR_Return \/ XW_CreateDoc \/ XR_ReadBack

SpecXml == XmlInit /\ [][XmlNext]_vars

\* ------------------------------------------------ FarmDb::ReadShp (FarmShp.cpp)
\* A shapefile is what Shapelib answers about it: the files there are,
\* whether SHPOpen and DBFOpen succeed, the DBF schema, the shape type, the
\* two record counts, and for every record its three names and its
\* SHPObject (NoObject when SHPReadObject fails).
MaxRecords == 3

NoObject == [nParts |-> -1, nVertices |-> -1, panPartStart |-> <<>>,
             padfX |-> <<>>, padfY |-> <<>>]

\* An SHPObject of the rings given as lists of <<x, y>>, one part each.
RECURSIVE PartStarts(_, _, _)
PartStarts(rings, k, at) ==
  IF k > Len(rings) THEN <<>>
  ELSE <<at>> \o PartStarts(rings, k + 1, at + Len(rings[k]))

RECURSIVE Joined(_, _)
Joined(rings, k) == IF k > Len(rings) THEN <<>> ELSE rings[k] \o Joined(rings, k + 1)

Object(rings) ==
  [nParts |-> Len(rings), nVertices |-> Len(Joined(rings, 1)),
   panPartStart |-> PartStarts(rings, 1, 0),
   padfX |-> [k \in 1..Len(Joined(rings, 1)) |-> Joined(rings, 1)[k][1]],
   padfY |-> [k \in 1..Len(Joined(rings, 1)) |-> Joined(rings, 1)[k][2]]]

\* Rings as lists of <<longitude, latitude>>.
ShpSquareOpen == <<<<20, 10>>, <<24, 10>>, <<24, 14>>, <<20, 14>>>>

ShpSquare == <<<<20, 10>>, <<20, 14>>, <<24, 14>>, <<24, 10>>, <<20, 10>>>>

ShpHole == <<<<21, 11>>, <<21, 12>>, <<22, 12>>, <<22, 11>>, <<21, 11>>>>

ShpFarNorth == <<<<20, 88>>, <<20, 92>>, <<24, 92>>, <<24, 88>>, <<20, 88>>>>

Objects == {Object(<<ShpSquareOpen>>), Object(<<ShpSquare, ShpHole>>)}

ShpKeys ==
  {<<"A", "F", "1">>, <<"A", "F", "2">>, <<"A", "G", "1">>, <<"B", "F", "1">>}

Rec(key, obj) == [client |-> key[1], farm |-> key[2], field |-> key[3], obj |-> obj]

ShpRecords ==
  {Rec(key, obj) : key \in ShpKeys, obj \in Objects}
    \cup {Rec(<<"A", "", "1">>, Object(<<ShpSquare>>)),
          Rec(<<"B", "G", "2">>, NoObject),
          Rec(<<"B", "G", "2">>, Object(<<>>)),
          Rec(<<"B", "G", "2">>,
              [Object(<<ShpSquare, ShpHole>>) EXCEPT !.panPartStart = <<0, 0>>]),
          Rec(<<"B", "G", "2">>, Object(<<ShpFarNorth>>))}

RECURSIVE SeqsUpTo(_, _)
\* Every sequence over the set of length n at most.
SeqsUpTo(set, n) ==
  IF n = 0 THEN {<<>>}
  ELSE SeqsUpTo(set, n - 1) \cup
       {Append(s, x) : s \in {t \in SeqsUpTo(set, n - 1) : Len(t) = n - 1}, x \in set}

ShpFaults ==
  {"none", "not .shp", "no .shp", "no .shx", "no .dbf", "SHPOpen", "DBFOpen",
   "schema", "shape type", "record count"}

ShpEnvs ==
  {[fault |-> "none", recs |-> recs] : recs \in SeqsUpTo(ShpRecords, MaxRecords)}
    \cup {[fault |-> f, recs |-> <<r>>] : f \in ShpFaults, r \in ShpRecords}

NoShpDb ==
  [customers |-> <<>>, farms |-> <<>>, fields |-> <<>>,
   customersByName |-> <<>>, farmsByKey |-> <<>>, fieldsByKey |-> <<>>]

\* std::unordered_map::find: the position kept under a key, 0 for end().
MapFind(map, key) ==
  IF \E k \in 1..Len(map) : map[k].key = key
  THEN map[CHOOSE k \in 1..Len(map) : map[k].key = key].ptr
  ELSE 0

\* The customer of the record: the one of that name, or a new one.
WithCustomer(db, r) ==
  IF MapFind(db.customersByName, r.client) # 0 THEN db
  ELSE [db EXCEPT
          !.customers = Append(@, Customer(r.client)),
          !.customersByName =
             Append(@, [key |-> r.client, ptr |-> Len(db.customers) + 1])]

\* FarmKey{clientName, farmName}
FarmKey(r) == <<r.client, r.farm>>

\* Mutant of FieldKey: the name of the field is left out of the key.
FieldKeyNoName(r) == <<r.client, r.farm>>

\* FieldKey{clientName, farmName, fieldName}
FieldKey(r) == <<r.client, r.farm, r.field>>

\* The farm of the record: the one of that client and name, or a new one.
WithFarm(db, r, customer) ==
  IF MapFind(db.farmsByKey, FarmKey(r)) # 0 THEN db
  ELSE [db EXCEPT
          !.farms = Append(@, [Farm(r.farm) EXCEPT !.customer = customer]),
          !.customers[customer].farms = Append(@, Len(db.farms) + 1),
          !.farmsByKey =
             Append(@, [key |-> FarmKey(r), ptr |-> Len(db.farms) + 1])]

\* The field of the record: the one of that client, farm and name, or a
\* new one.
WithField(db, r, customer, farm) ==
  IF MapFind(db.fieldsByKey, FieldKey(r)) # 0 THEN db
  ELSE [db EXCEPT
          !.fields = Append(@, [Field(r.field) EXCEPT !.customer = customer,
                                                      !.farm = farm]),
          !.farms[farm].fields = Append(@, Len(db.fields) + 1),
          !.fieldsByKey =
             Append(@, [key |-> FieldKey(r),
                        ptr |-> Len(db.fields) + 1])]

\* AppendRingLiteral: vertices start..end-1 of the object, as they are.
AppendRingLiteral(poly, ringIndex, xs, ys, start, end) ==
  IF ringIndex = 0
  THEN [poly EXCEPT !.outer = @ \o [k \in 1..(end - start) |->
                                      LatLon(ys[start + k], xs[start + k])]]
  ELSE [poly EXCEPT !.inners = Append(@, [k \in 1..(end - start) |->
                                            LatLon(ys[start + k], xs[start + k])])]

PartStart(obj, part) == obj.panPartStart[part + 1]

PartEnd(obj, part) ==
  IF part + 1 < obj.nParts THEN obj.panPartStart[part + 2] ELSE obj.nVertices

RECURSIVE ShpPartsFrom(_, _, _)
\* The loop over the parts of the shape.
ShpPartsFrom(obj, part, poly) ==
  IF part = obj.nParts THEN Ok(poly)
  ELSE IF \/ PartStart(obj, part) < 0 \/ PartEnd(obj, part) < 0
          \/ PartStart(obj, part) >= PartEnd(obj, part)
          \/ PartEnd(obj, part) > obj.nVertices
  THEN Fail("invalid part vertex range")
  ELSE ShpPartsFrom(obj, part + 1,
         AppendRingLiteral(poly, part, obj.padfX, obj.padfY,
                           PartStart(obj, part), PartEnd(obj, part)))

\* boost::geometry::correct of the polygon: every ring closed, the outer
\* ring clockwise and the holes counter-clockwise; nothing is validated.
CorrectPolygon(poly) ==
  [outer  |-> MakeRing(CorrectRing(GeoPts(poly.outer), FALSE)),
   inners |-> [r \in 1..Len(poly.inners) |->
                 MakeRing(CorrectRing(GeoPts(poly.inners[r]), TRUE))]]

\* The shape of the record becomes one more part of its field.
ShpPolygon(obj) ==
  IF obj = NoObject THEN Fail("SHPReadObject failed")
  ELSE IF obj.nParts <= 0 THEN Fail("polygon has no parts/rings")
  ELSE IF obj.nVertices <= 0 THEN Fail("polygon has no vertices")
  ELSE ShpPartsFrom(obj, 0, NoPolygon)

PartAdded(db, field, poly) ==
  IF ~poly.ok THEN poly
  ELSE Ok([db EXCEPT !.fields[field].parts = Append(@, CorrectPolygon(poly.val))])

\* The checks of one record once its customer, farm and field are there.
ShpChecked(db, r, customer, farm, field) ==
  IF db.farms[farm].customer # customer
  THEN Fail("farm->customer mismatch for this record")
  ELSE IF db.fields[field].farm # farm
  THEN Fail("field->farm mismatch for this record")
  ELSE IF db.fields[field].customer # customer
  THEN Fail("field->customer mismatch for this record")
  ELSE IF db.fields[field].farm = 0
          \/ db.farms[db.fields[field].farm].customer # db.fields[field].customer
  THEN Fail("invariant violated: field->farm->customer != field->customer")
  ELSE PartAdded(db, field, ShpPolygon(r.obj))

ShpFieldOf(db, r, customer, farm) ==
  ShpChecked(WithField(db, r, customer, farm), r, customer, farm,
             MapFind(WithField(db, r, customer, farm).fieldsByKey,
                     FieldKey(r)))

ShpFarmOf(db, r, customer) ==
  ShpFieldOf(WithFarm(db, r, customer), r, customer,
             MapFind(WithFarm(db, r, customer).farmsByKey, FarmKey(r)))

\* One turn of the loop over the records.
ReadRecord(db, r) ==
  IF r.client = "" \/ r.farm = "" \/ r.field = ""
  THEN Fail("missing or empty DBF field")
  ELSE ShpFarmOf(WithCustomer(db, r), r,
                 MapFind(WithCustomer(db, r).customersByName, r.client))

\* What FarmDb::ReadShp throws before the loop, "none" when nothing.
ShpOpenFailure(fault) ==
  CASE fault = "not .shp" -> "expected a .shp file"
    [] fault = "no .shp" -> "file does not exist"
    [] fault = "no .shx" -> "missing required sibling .shx file"
    [] fault = "no .dbf" -> "missing required sibling .dbf file"
    [] fault = "SHPOpen" -> "SHPOpen failed"
    [] fault = "DBFOpen" -> "DBFOpen failed"
    [] fault = "schema" -> "DBF schema mismatch"
    [] fault = "shape type" -> "unsupported shape type"
    [] fault = "record count" -> "record count mismatch"
    [] OTHER -> "none"

ShpInit ==
  /\ senv \in ShpEnvs
  /\ spc = "open" /\ si = 0 /\ sdb = NoShpDb /\ serr = "none"
  /\ shandles = {}
  /\ RingIdle /\ PipeIdle /\ SimpIdle /\ ZipIdle /\ XmlIdle /\ CliIdle /\ MapIdle /\ PathIdle

\* A throw out of FarmDb::ReadShp: the guards close what is open and no
\* database is returned.
ShpThrow(msg) ==
  /\ spc' = "error" /\ serr' = msg /\ sdb' = NoShpDb
  /\ shandles' = {}
  /\ UNCHANGED <<senv, si>>

\* FarmDb::ReadShp up to the loop over the records.
RS_Open ==
  /\ spc = "open"
  /\ IF ShpOpenFailure(senv.fault) # "none"
     THEN ShpThrow(ShpOpenFailure(senv.fault))
     ELSE /\ spc' = "loop" /\ shandles' = {"hShp", "hDbf"}
          /\ UNCHANGED <<senv, si, sdb, serr>>
  /\ UNCHANGED notShpVars

\* One record: the SHPObject read is destroyed when the turn ends.
RS_Record ==
  /\ spc = "loop" /\ si < Len(senv.recs)
  /\ IF ReadRecord(sdb, senv.recs[si + 1]).ok
     THEN /\ sdb' = ReadRecord(sdb, senv.recs[si + 1]).val /\ si' = si + 1
          /\ UNCHANGED <<senv, spc, serr, shandles>>
     ELSE ShpThrow(ReadRecord(sdb, senv.recs[si + 1]).msg)
  /\ UNCHANGED notShpVars

\* The loop is over: the database is returned and the guards close the
\* two files.
RS_Return ==
  /\ spc = "loop" /\ si = Len(senv.recs)
  /\ spc' = "read" /\ shandles' = {}
  /\ UNCHANGED <<senv, si, sdb, serr>>
  /\ UNCHANGED notShpVars

ShpNext == RS_Open \/ RS_Record \/ RS_Return

SpecShp == ShpInit /\ [][ShpNext]_vars

\* Either reader.
ReadInit == XmlInit \/ ShpInit

ReadNext == XmlNext \/ ShpNext

SpecRead == ReadInit /\ [][ReadNext]_vars

\* -------------------------------------------------- InsetXml: ParseArgs, main
\* A command line is what boost::program_options makes of it: whether it
\* parses (known options, a number for the inset), whether --help, the
\* inset and the output are given, and the values.  The inset is in
\* hundredths of a foot; a path is a stem and an extension.
Path(stem, ext) == [stem |-> stem, ext |-> ext]

\* Options::inputPath as it is before the command line is parsed.
DefaultInput == Path("TASKDATA", ".XML")

InputPaths ==
  {DefaultInput} \cup {Path(s, e) : s \in {"a", "b"}, e \in {".xml", ".zip", ".wkt"}}

OutputPaths ==
  {Path("TASKDATA", ".XML")}
    \cup {Path(s, e) : s \in {"a"}, e \in {".xml", ".XML", ".wkt", ".WKT", ".zip", ".txt"}}

InsetsFt == {-100, 50, 51, 400}

CommandLines ==
  [parses : BOOLEAN, help : BOOLEAN, hasInset : BOOLEAN, hasOutput : BOOLEAN,
   insetFt : InsetsFt, inputPath : InputPaths, outputPath : OutputPaths]

\* How gsl-lite is configured to answer a failed gsl_Expects: no source
\* file sets it, the build does.
GslBuilds == {"terminates", "throws", "off"}

\* ParseArgs: "exit(2)" when it ends the process, "nullopt" when it
\* returns nothing and "opts" when it returns the options.
ParseArgs(a) ==
  IF ~a.parses THEN "exit(2)"
  ELSE IF a.help THEN "nullopt"
  ELSE IF ~a.hasInset \/ ~a.hasOutput THEN "exit(2)"
  ELSE IF a.insetFt <= 50 THEN "exit(2)"
  ELSE IF a.outputPath = a.inputPath THEN "exit(2)"
  ELSE IF a.inputPath.ext \notin {".xml", ".XML", ".zip"} THEN "exit(2)"
  ELSE IF a.outputPath.ext \notin {".xml", ".XML", ".wkt", ".WKT", ".zip"} THEN "exit(2)"
  ELSE "opts"

\* opts->insetFt * mp_units::yard_pound::foot, in millimetres.
FeetToMm(hundredths) == (hundredths * 3048) \div 1000

\* The ways FarmDb::ReadXml can end on a path: the extension it refuses,
\* and otherwise what the file turns out to be.
ReadXmlOutcomes(path) ==
  IF path.ext \in {".xml", ".XML", ".zip"}
  THEN {"ok", "ok, no parts", "throws"}
  ELSE {"invalid filename extension"}

\* FarmDb::inset(name, dist): BoundarySwaths on every part of every field.
\* With a part to work on, an offset below 10 cm throws, one below 1 m
\* fails the gsl_Expects of ComputeInset, and Buffer, Simplify and
\* EnsureValid may throw.
FarmDbInsetOutcomes(hasParts, offMm) ==
  IF ~hasParts THEN {"ok"}
  ELSE IF offMm < MinOffsetMm THEN {"throws"}
  ELSE IF offMm < InsetExpectsMm THEN {"gsl_Expects"}
  ELSE {"ok", "throws"}

\* The ways FarmDb::writeWkt can end: the stream is tested once, when it is
\* opened, and never after the lines are written.
WriteWktOutcomes == {"ok", "throws", "stream fails"}

\* The ways FarmDb::writeXml can end on a path.
WriteXmlOutcomes(path) ==
  IF path.ext \in {".xml", ".XML", ".zip"} THEN {"ok", "throws"}
  ELSE {"invalid filename extension"}

\* main writes WKT for .wkt and .WKT and XML for every other extension.
WriteOutcomes(path) ==
  IF path.ext \in {".wkt", ".WKT"} THEN WriteWktOutcomes
  ELSE WriteXmlOutcomes(path)

CliInit ==
  /\ cargs \in CommandLines /\ cgsl \in GslBuilds
  /\ cpc = "ParseArgs" /\ cstatus = -1 /\ cfailed = "none"
  /\ chasParts = FALSE /\ cwritten = FALSE
  /\ RingIdle /\ PipeIdle /\ SimpIdle /\ ZipIdle /\ XmlIdle /\ ShpIdle /\ MapIdle /\ PathIdle

\* The process ends with a status.
CliExit(status, failed) ==
  /\ cpc' = "exit" /\ cstatus' = status /\ cfailed' = failed

\* An exception reaches the handlers of main: return 1.
CliCatch(failed) == CliExit(1, failed)

CLI_ParseArgs ==
  /\ cpc = "ParseArgs"
  /\ IF ParseArgs(cargs) = "exit(2)" THEN CliExit(2, "none")
     ELSE IF ParseArgs(cargs) = "nullopt" THEN CliExit(1, "none")
     ELSE cpc' = "ReadXml" /\ UNCHANGED <<cstatus, cfailed>>
  /\ UNCHANGED <<cargs, cgsl, chasParts, cwritten, notCliVars>>

CLI_ReadXml ==
  /\ cpc = "ReadXml"
  /\ \E r \in ReadXmlOutcomes(cargs.inputPath) :
       IF r \in {"ok", "ok, no parts"}
       THEN /\ cpc' = "inset" /\ chasParts' = (r = "ok")
            /\ UNCHANGED <<cstatus, cfailed>>
       ELSE /\ CliCatch(IF r = "throws" THEN "read" ELSE r)
            /\ UNCHANGED chasParts
  /\ UNCHANGED <<cargs, cgsl, cwritten, notCliVars>>

\* if (opts->insetFt != 0.0) db.inset(...)
CLI_Inset ==
  /\ cpc = "inset"
  /\ IF cargs.insetFt = 0 THEN cpc' = "write" /\ UNCHANGED <<cstatus, cfailed>>
     ELSE \E r \in FarmDbInsetOutcomes(chasParts, FeetToMm(cargs.insetFt)) :
       IF r = "ok" \/ (r = "gsl_Expects" /\ cgsl = "off")
       THEN cpc' = "write" /\ UNCHANGED <<cstatus, cfailed>>
       ELSE IF r = "gsl_Expects" /\ cgsl = "terminates"
       THEN cpc' = "terminated" /\ cfailed' = "inset" /\ UNCHANGED cstatus
       ELSE CliCatch("inset")
  /\ UNCHANGED <<cargs, cgsl, chasParts, cwritten, notCliVars>>

\* writeWkt or writeXml by the extension of the output, then return 0.
CLI_Write ==
  /\ cpc = "write"
  /\ \E r \in WriteOutcomes(cargs.outputPath) :
       IF r = "ok" THEN CliExit(0, "none") /\ cwritten' = TRUE
       ELSE IF r = "stream fails" THEN CliExit(0, "write") /\ cwritten' = FALSE
       ELSE /\ CliCatch(IF r = "throws" THEN "write" ELSE r)
            /\ cwritten' = FALSE
  /\ UNCHANGED <<cargs, cgsl, chasParts, notCliVars>>

CliNext == CLI_ParseArgs \/ CLI_ReadXml \/ CLI_Inset \/ CLI_Write

SpecCli == CliInit /\ [][CliNext]_vars

\* ------------------------- MapCornersToOriginal, FindCornersSimp on their own
RECURSIVE MapTrace(_, _, _, _, _)
\* The outer for loop of MapCornersToOriginal once more, keeping for every
\* simplified corner the cursor i0 its scan started at and the best_i that
\* was pushed to `out`, in the order of simp_corners.
MapTrace(orig, simp, sc, k, i0) ==
  IF k > Len(sc) THEN <<>>
  ELSE LET corner == simp[sc[k] + 1]
           best   == NearestScan(orig, corner, i0 + 1, i0, Dist2(orig[i0 + 1], corner))
       IN <<[i0 |-> i0, best |-> best]>>
            \o MapTrace(orig, simp, sc, k + 1, Min(0, best + 1))

\* Closed rings of n points, closing vertex included, over a set of points.
ClosedRingsOf(points, n) == {Append(s, s[1]) : s \in [1..(n - 1) -> points]}

\* Original rings: empty, or closed with at least 2 points.
MapOrigs ==
  {<<>>} \cup UNION {ClosedRingsOf(TestPoints, n) : n \in 2..MaxOrigLen}

\* Simplified rings: empty, or closed with 2 or 3 distinct positions.
MapSimps == {<<>>} \cup ClosedRingsOf(TestPoints, 3) \cup ClosedRingsOf(TestPoints, 4)

\* Ascending lists of valid corner indices of a simplified ring, as
\* FindCornersSimp returns them.
MapSimpCorners(rg) ==
  IF rg = <<>> THEN {<<>>, <<0>>}
  ELSE {SortedSeq(c) : c \in SUBSET (0..(Len(rg) - 2))}

\* The 3 x 3 grid: edges along the axes and the diagonals, so that turns of
\* exactly 45, 90, 135 and 180 degrees occur.
GridPoints == {<<x, y>> : x \in 0..2, y \in 0..2}

TurnRings == UNION {ClosedRingsOf(GridPoints, n) : n \in 3..MaxRingLen}

MapInit ==
  /\ \/ /\ mcall = "MapCornersToOriginal"
        /\ morig \in MapOrigs /\ msimp \in MapSimps
        /\ msc \in MapSimpCorners(msimp)
     \/ /\ mcall = "FindCornersSimp"
        /\ morig = <<>> /\ msimp \in TurnRings /\ msc = <<>>
  /\ mtrace = <<>> /\ mout = <<>> /\ mpc = "call"
  /\ RingIdle /\ PipeIdle /\ SimpIdle /\ ZipIdle /\ XmlIdle /\ ShpIdle /\ CliIdle /\ PathIdle

CallMapCornersToOriginal ==
  /\ mpc = "call" /\ mcall = "MapCornersToOriginal"
  /\ mout' = MapCornersToOriginal(morig, msimp, msc)
  /\ mtrace' = IF morig = <<>> \/ msimp = <<>> \/ msc = <<>> THEN <<>>
               ELSE MapTrace(morig, msimp, msc, 1, 0)
  /\ mpc' = "returned"
  /\ UNCHANGED <<mcall, morig, msimp, msc, notMapVars>>

CallFindCornersSimp ==
  /\ mpc = "call" /\ mcall = "FindCornersSimp"
  /\ LET f == FindCornersSimp(msimp)
     IN /\ mout' = f.corners
        /\ mpc' = IF f.status = "ok" THEN "returned" ELSE "bug"
  /\ UNCHANGED <<mcall, morig, msimp, msc, mtrace, notMapVars>>

MapNext == CallMapCornersToOriginal \/ CallFindCornersSimp

SpecMap == MapInit /\ [][MapNext]_vars

\* ------------------------------- WriteSwathPath and ReadSwathPath on their own
PathPoints == {LatLon(10, 20), LatLon(14, 24), LatLon(10, 24)}

\* The paths WriteSwathPath is given.
SwathPaths == SeqsUpTo(PathPoints, MaxPathLen)

\* The point types an LSG read on its own may carry: the three guidance
\* types and one that is none of them.
LsgPointTypes == {PtGuideA, PtGuideB, PtGuidePoint, PtField}

\* An LSG of the given type whose k-th point is of type types[k].
TypedLsg(lsgType, types) ==
  El("LSG", <<At("A", I(lsgType))>>,
     [k \in 1..Len(types) |-> Pnt(types[k], <<10 + k, 20 + k>>, "none")])

TypedLsgs ==
  {TypedLsg(lsgType, types) :
     lsgType \in {LsgGuidance, LsgExterior}, types \in SeqsUpTo(LsgPointTypes, MaxPathLen)}

PathInit ==
  /\ \/ ppc = "path" /\ ppath \in SwathPaths /\ plsg = <<>>
     \/ ppc = "lsg" /\ ppath = <<>> /\ plsg \in TypedLsgs
  /\ pread = <<>>
  /\ RingIdle /\ PipeIdle /\ SimpIdle /\ ZipIdle /\ XmlIdle /\ ShpIdle /\ CliIdle
  /\ MapIdle

\* WriteSwathPath(node, path): the LSG appended to the node.
CallWriteSwathPath ==
  /\ ppc = "path"
  /\ plsg' = WriteSwathPath(ppath)
  /\ ppc' = "written"
  /\ UNCHANGED <<ppath, pread, notPathVars>>

\* ReadSwathPath(x), of an LSG just written or of one given.
CallReadSwathPath ==
  /\ ppc \in {"written", "lsg"}
  /\ pread' = ReadSwathPath(plsg)
  /\ ppc' = IF ppc = "written" THEN "read back" ELSE "read"
  /\ UNCHANGED <<ppath, plsg, notPathVars>>

PathNext == CallWriteSwathPath \/ CallReadSwathPath

SpecPath == PathInit /\ [][PathNext]_vars

\* ------------------------------------------------------ ring-level claims
Closed(rg) == Len(rg) >= 1 /\ rg[1] = rg[Len(rg)]

StrictlyIncreasing(cs) == \A k \in 1..(Len(cs) - 1) : cs[k] < cs[k + 1]

\* What AdjustCorners is given: ascending, duplicate-free, below |ring| - 1.
AdjustPre(rg, cs) ==
  /\ Closed(rg) /\ Len(rg) >= 4
  /\ StrictlyIncreasing(cs)
  /\ \A k \in 1..Len(cs) : cs[k] < Len(rg) - 1

\* What AdjustCorners promises.
AdjustPost(rg, cs) ==
  /\ Len(cs) >= 2
  /\ cs[1] = 0
  /\ StrictlyIncreasing(cs)
  /\ \A k \in 1..Len(cs) : cs[k] < Len(rg) - 1

RECURSIVE Concat(_)
Concat(ps) == IF ps = <<>> THEN <<>> ELSE Head(ps) \o Concat(Tail(ps))

Edges(p) == [k \in 1..(Len(p) - 1) |-> <<p[k], p[k + 1]>>]

ExtractReturned == stage \in {"extracted", "bug", "ub"}

\* C1: after AdjustCorners on a closed ring of at least 4 points and an
\* ascending duplicate-free corner list with all indices < |ring| - 1 (the
\* empty list included): corners[0] = 0, |corners| >= 2, corners strictly
\* increasing, every corner < |ring| - 1, the ring closed and as long as
\* before.
C1_AdjustPostcondition ==
  (stage = "adjusted" /\ AdjustPre(ring0, corners0)) =>
    /\ AdjustPost(ring, corners)
    /\ Closed(ring)
    /\ Len(ring) = Len(ring0)

\* C1 witness: the call rotated the ring backward (corners.back() became
\* index 0).
C1_Witness ==
  /\ stage = "adjusted" /\ AdjustPre(ring0, corners0)
  /\ Len(corners0) >= 2 /\ corners0[1] # 0
  /\ corners0[1] >= (Len(ring0) - 1) - corners0[Len(corners0)]
  /\ ring # ring0

\* C2 as stated: the concatenated swaths with adjacent duplicates removed
\* are exactly ring[0..n), n = |ring| - 1.
C2_CoverOpenRange ==
  (stage = "extracted" /\ Closed(ring) /\ AdjustPost(ring, corners)) =>
    Dedup(Concat(swaths)) = SubSeq(ring, 1, Len(ring) - 1)

\* C2 amended: the concatenated swaths with adjacent duplicates removed are
\* the whole closed ring ring[0..n], closing vertex included, with its own
\* adjacent duplicates removed; and the edges of the swaths, in order, are
\* exactly the edges of the ring, each once.
C2_CoverClosedRing ==
  (stage = "extracted" /\ Closed(ring) /\ AdjustPost(ring, corners)) =>
    /\ Dedup(Concat(swaths)) = Dedup(ring)
    /\ Concat([k \in 1..Len(swaths) |-> Edges(swaths[k])]) = Edges(ring)

\* C2 witness: swaths extracted from an adjusted ring without repeated
\* consecutive vertices, so the cover is the ring itself.
C2_Witness ==
  /\ stage = "extracted" /\ Closed(ring) /\ AdjustPost(ring, corners)
  /\ corners # corners0
  /\ Dedup(ring) = ring
  /\ Dedup(Concat(swaths)) = ring

\* The corner lists C3 speaks of: indices into the ring, first one 0, at
\* least two, strictly increasing.
C3Pre(rg, cs) ==
  /\ Closed(rg) /\ Len(rg) >= 4
  /\ Len(cs) >= 2 /\ cs[1] = 0
  /\ StrictlyIncreasing(cs)
  /\ \A k \in 1..Len(cs) : cs[k] < Len(rg)

\* C3: ExtractSwaths returns exactly |corners| paths; path i is
\* ring[corners[i] .. corners[i+1]] with both ends, the last path is
\* ring[corners[last] .. end of ring].
C3_SwathCountAndContent ==
  (ExtractReturned /\ C3Pre(ring, corners)) =>
    /\ stage = "extracted"
    /\ Len(swaths) = Len(corners)
    /\ \A k \in 1..(Len(corners) - 1) :
         swaths[k] = SubSeq(ring, corners[k] + 1, corners[k + 1] + 1)
    /\ swaths[Len(corners)] = SubSeq(ring, corners[Len(corners)] + 1, Len(ring))

\* C3 witness: three or more corners, the last one being the closing vertex
\* itself, which the adjust postcondition excludes but C3 covers.
C3_Witness ==
  /\ stage = "extracted" /\ C3Pre(ring, corners)
  /\ Len(corners) >= 3
  /\ corners[Len(corners)] = Len(ring) - 1

\* C4: called with the adjust postcondition, ExtractSwaths fails no
\* assertion, every path has at least 2 vertices, each path ends where the
\* next begins and the final path ends where the first begins.
C4_SwathsChain ==
  (ExtractReturned /\ Closed(ring) /\ AdjustPost(ring, corners)) =>
    /\ stage = "extracted"
    /\ \A k \in 1..Len(swaths) : Len(swaths[k]) >= 2
    /\ \A k \in 1..(Len(swaths) - 1) :
         swaths[k][Len(swaths[k])] = swaths[k + 1][1]
    /\ swaths[Len(swaths)][Len(swaths[Len(swaths)])] = swaths[1][1]

\* C4 witness: swaths extracted right after AdjustCorners supplied the
\* second corner itself.
C4_Witness ==
  /\ stage = "extracted" /\ Closed(ring) /\ AdjustPost(ring, corners)
  /\ Len(corners0) <= 1
  /\ Len(swaths) = 2

\* ------------------------------------------------------- Simplify claims
RECURSIVE Attempts(_)
\* How many of tolerance, tolerance/2, tolerance/4, ... are >= 0.01 m.
Attempts(tolMm) == IF tolMm < 10 THEN 0 ELSE 1 + Attempts(tolMm \div 2)

RetriedFailures == {"failure_self_intersections", "failure_few_points"}

\* C7: Simplify with tolerance >= 0.01 m returns a simplified geometry that
\* is valid, or one whose only failure is wrong orientation, or the
\* original unchanged after every tolerance tolerance/2^k >= 0.01 m failed
\* with self-intersections or too few points; any other failure at any
\* attempt ends the call with an error and no geometry.
C7_SimplifyOutcomes ==
  (simpOut # NoResult /\ tolerance >= 10) =>
    /\ simpOut.status \in {"ok", "error"}
    /\ \A k \in 1..Len(simpOut.log) : simpOut.log[k].halvings = k - 1
    /\ \A k \in 1..(Len(simpOut.log) - 1) : simpOut.log[k].failure \in RetriedFailures
    /\ simpOut.from = "simplified" =>
         /\ simpOut.status = "ok"
         /\ Validity(geoKind, simpOut.geo) \in {"no_failure", "failure_wrong_orientation"}
         /\ simpOut.log[Len(simpOut.log)].failure = Validity(geoKind, simpOut.geo)
    /\ simpOut.from = "original" =>
         /\ simpOut.status = "ok"
         /\ simpOut.geo = geoArg
         /\ Len(simpOut.log) = Attempts(tolerance)
         /\ simpOut.log[Len(simpOut.log)].failure \in RetriedFailures
    /\ simpOut.status = "error" =>
         /\ simpOut.geo = <<>>
         /\ simpOut.log[Len(simpOut.log)].failure \notin
              RetriedFailures \cup {"no_failure", "failure_wrong_orientation"}
    /\ simpOut.status = "ok" => simpOut.from \in {"simplified", "original"}

\* C7 witness: the original came back after two or more attempts failed.
C7_Witness ==
  /\ simpOut.from = "original"
  /\ Len(simpOut.log) >= 2
  /\ simpOut.geo = geoArg

\* ------------------------------------------------- BoundarySwaths claims
Terminated == pc \in {"done", "error", "bug"}

\* All rings of a multipolygon, polygon by polygon, exterior ring first.
RingsOf(mp) == Concat([p \in 1..Len(mp) |-> PolygonRings(mp[p])])

PathEdges(mpath) == Concat([i \in 1..Len(mpath) |-> Edges(mpath[i])])

\* C5: BoundarySwaths returns one MultiPath per ring of the simplified
\* inset, polygon by polygon, the exterior ring's swaths first and then
\* each interior ring's in ring order; every polygon's corner-list vector
\* has length 1 + |inners| and the assertion on that length never fails.
C5_OneMultiPathPerRing ==
  /\ err # "Expects ssize(cv) == 1 + ssize(inners)"
  /\ pc \in {"polys", "done"} =>
       /\ \A p \in 1..Len(cvs) : Len(cvs[p]) = 1 + Len(simp_mp[p].inners)
       /\ Len(linesVec) = Len(RingsOf(SubSeq(simp_mp, 1, Len(cvs))))
       /\ \A k \in 1..Len(linesVec) :
            PathEdges(linesVec[k]) = Edges(RingsOf(simp_mp)[k])
  /\ pc = "done" => Len(linesVec) = Len(RingsOf(simp_mp))

\* C5 witness: a returned list for a polygon with two interior rings.
C5_Witness ==
  /\ pc = "done"
  /\ Len(simp_mp) = 1 /\ Len(simp_mp[1].inners) = 2
  /\ Len(linesVec) = 3

\* C6: every offset below 1 m ends in a reported error; the buffer is never
\* computed and no Expects assertion is hit.
C6_SmallOffsetRejected ==
  offset < 1000 =>
    /\ pc \notin {"bug", "simplify", "polys", "done"}
    /\ Terminated => pc = "error"

\* ggl::buffer has run in this call.
BufferRan ==
  \/ pc \in {"simplify", "polys", "done"}
  \/ /\ pc \in {"error", "bug"}
     /\ err \notin {"<offset_m> must be >= 10 cm", "Invalid geometry: in",
                    "Expects offset >= 1.0 m"}

\* C8: when the buffer yields an empty multipolygon (and the tolerance is
\* one Simplify accepts, >= 0.01 m) the call raises no error, returns an
\* empty list, and no ring is simplified for corners or cut into swaths.
C8_EmptyInsetEmptyOutput ==
  (BufferRan /\ inset_mp = <<>> /\ simplifyTol >= 10) =>
    /\ pc \notin {"error", "bug"}
    /\ linesVec = <<>>
    /\ cvs = <<>>
    /\ pc \in {"polys", "done"} => simp_mp = <<>>

\* C8 witness: the 200 m x 8 m rectangle with offset 5 m has returned.
C8_Witness ==
  /\ pc = "done"
  /\ poly_in = Rect200x8 /\ offset = 5000
  /\ inset_mp = <<>> /\ linesVec = <<>>

Range(sq) == {sq[k] : k \in 1..Len(sq)}

\* Every listed corner lies on exactly two paths, and those two are
\* neighbours (the last path and the first are neighbours too).
InTwoAdjacent(mpath, cornerPts) ==
  \A c \in cornerPts :
    LET on == {k \in 1..Len(mpath) : c \in Range(mpath[k])}
    IN /\ Cardinality(on) = 2
       /\ \E k \in on : CycNext(k, Len(mpath)) \in on

S1Call(poly) == poly_in = poly /\ offset = 5000 /\ simplifyTol = 100

S3Call(poly) == poly_in = poly /\ offset = 2000 /\ simplifyTol = DefaultSimplifyTol

NoRightTurn(rg) ==
  \A k \in 1..(Len(rg) - 1) :
    cross(Sub(rg[k + 1], rg[k]),
          Sub(rg[IF k = Len(rg) - 1 THEN 2 ELSE k + 2], rg[k + 1])) >= 0

ZipEnded == zpc = "exit"

\* Nothing the reader asks of the file system or of libzip fails, and the
\* archive holds TASKDATA/TASKDATA.XML with a well-formed document.
ReadableTaskDataZip ==
  /\ zenv.ext = ".zip"
  /\ \E k \in 1..Len(zenv.entries) : zenv.entries[k] = TaskDataName
  /\ zenv.zipOk /\ zenv.entryOk /\ zenv.tmpOk /\ zenv.outOk /\ zenv.writeOk
  /\ zenv.docOk /\ zenv.readFailAt = 0

\* C12: reading a .zip whose archive holds a readable TASKDATA/TASKDATA.XML
\* with a well-formed document succeeds: the reader returns the database,
\* having opened the entry, read it to its end and closed it.
C12_TaskDataZipIsRead ==
  (ZipEnded /\ ReadableTaskDataZip) =>
    /\ zres.status = "returned"
    /\ \E h \in 1..Len(zlib.zfs) : zlib.zfs[h].st = "closed" /\ zlib.zfs[h].left = 0

\* C13: when a .zip reader ends, by return or by exception, the archive is
\* closed or discarded, every entry handle libzip handed out is closed, and
\* the temp directory, if one was made, is removed.
C13_AllReleased ==
  ZipEnded =>
    /\ zlib.za # "open"
    /\ \A h \in 1..Len(zlib.zfs) : zlib.zfs[h].st = "closed"
    /\ ztmp # "made"

\* ------------------------------------------------- claims on the readers
RECURSIVE Flatten(_)
RECURSIVE FlattenFrom(_, _)
\* The element and everything below it, in document order.
Flatten(x) == <<x>> \o FlattenFrom(x.kids, 1)

FlattenFrom(kids, k) ==
  IF k > Len(kids) THEN <<>> ELSE Flatten(kids[k]) \o FlattenFrom(kids, k + 1)

ElementName(kind) == IF kind = "root" THEN "ISO11783_TaskData" ELSE kind

\* The elements of a kind in a document, in document order.
OfKind(doc, kind) == SelectSeq(Flatten(doc), LAMBDA e : e.name = ElementName(kind))

\* The attributes of an element kind that a reader gives a meaning to.
InterpretedKeys(kind) ==
  CASE kind = "root" -> RootKeys
    [] kind = "CTR" -> {"A", "B"}
    [] kind = "FRM" -> {"A", "B", "I"}
    [] kind = "PFD" -> {"A", "C", "D", "E", "F"}
    [] kind = "PLN" -> {"A"}
    [] kind = "LSG" -> {"A"}
    [] kind = "PNT" -> {"A", "C", "D"}
    [] kind = "GGP" -> {"A", "B"}
    [] kind = "GPN" -> {"A", "B", "C", "E", "F", "G", "I"}
    [] kind = "VPN" -> {"A", "B", "C", "D", "E"}

HasAttribute(e, a) == \E m \in 1..Len(e.attrs) : e.attrs[m] = a

\* The elements of the kinds given keep, in the document written, every
\* attribute that is not interpreted.
PreservedOn(kinds) ==
  \A kind \in kinds : \A i \in 1..Len(OfKind(xdoc, kind)) :
    /\ i <= Len(OfKind(xout, kind))
    /\ \A j \in 1..Len(OfKind(xdoc, kind)[i].attrs) :
         OfKind(xdoc, kind)[i].attrs[j].k \notin InterpretedKeys(kind)
           => HasAttribute(OfKind(xout, kind)[i], OfKind(xdoc, kind)[i].attrs[j])

\* C14: when a document that was read is written back, every element of
\* every kind (root, CTR, FRM, PFD, PLN, LSG, PNT, GGP, GPN, VPN) carries,
\* with the same key and value, each attribute of the element read that the
\* reader does not interpret; the element that corresponds to one read is
\* the one at the same place among the elements of its kind.
C14_UnknownAttributesKept == xpc = "written" => PreservedOn(ElementKinds)

\* The references of a database are positions in its own containers, a
\* field with a farm has the customer of that farm, and the lists of
\* farms and of fields say what the references say.
DbConsistent(db) ==
  /\ \A f \in 1..Len(db.fields) :
       /\ db.fields[f].customer \in 0..Len(db.customers)
       /\ db.fields[f].farm \in 0..Len(db.farms)
       /\ db.fields[f].farm # 0 =>
            db.farms[db.fields[f].farm].customer = db.fields[f].customer
  /\ \A m \in 1..Len(db.farms) :
       /\ db.farms[m].customer \in 0..Len(db.customers)
       /\ \A k \in 1..Len(db.farms[m].fields) :
            db.farms[m].fields[k] \in 1..Len(db.fields)
       /\ \A f \in 1..Len(db.fields) :
            (db.fields[f].farm = m) <=>
              (\E k \in 1..Len(db.farms[m].fields) : db.farms[m].fields[k] = f)
  /\ \A c \in 1..Len(db.customers) :
       /\ \A k \in 1..Len(db.customers[c].farms) :
            db.customers[c].farms[k] \in 1..Len(db.farms)
       /\ \A m \in 1..Len(db.farms) :
            (db.farms[m].customer = c) <=>
              (\E k \in 1..Len(db.customers[c].farms) : db.customers[c].farms[k] = m)

\* The customer an element names under a key, -1 when it names none.
CustomerNamed(e, key) == IF HasAttr(e, key) THEN GetId("CTR", AttrValue(e, key)) ELSE -1

\* A document in which a field names a farm and another customer than that
\* farm does.
DocMismatch(doc) ==
  \E p \in 1..Len(doc.kids) : \E m \in 1..Len(doc.kids) :
    /\ doc.kids[p].name = "PFD" /\ doc.kids[m].name = "FRM"
    /\ HasAttr(doc.kids[p], "F") /\ HasAttr(doc.kids[m], "A")
    /\ GetId("FRM", AttrValue(doc.kids[p], "F")) = GetId("FRM", AttrValue(doc.kids[m], "A"))
    /\ CustomerNamed(doc.kids[p], "E") # CustomerNamed(doc.kids[m], "I")

\* C15: a database returned by ReadXml or by ReadShp has consistent
\* references (field.farm.customer = field.customer, every reference within
\* the database's own containers, customer.farms and farm.fields in
\* agreement with farm.customer and field.farm), and no document in which a
\* field and its farm name different customers is read.
C15_CrossReferences ==
  /\ xpc \in {"read", "written"} => DbConsistent(xdb) /\ ~DocMismatch(xdoc)
  /\ spc = "read" => DbConsistent(sdb)

\* ReadXml returned a database in which a customer has two farms and a farm
\* has two fields.
C15_Witness ==
  /\ xpc = "read"
  /\ Len(xdb.farms) = 3 /\ Len(xdb.fields) = 4
  /\ \E c \in 1..Len(xdb.customers) : Len(xdb.customers[c].farms) = 2
  /\ \E m \in 1..Len(xdb.farms) : Len(xdb.farms[m].fields) = 2

RECURSIVE FirstOccurrences(_, _)
\* The sequence without the elements that occurred before.
FirstOccurrences(s, k) ==
  IF k = 0 THEN <<>>
  ELSE IF \E j \in 1..(k - 1) : s[j] = s[k] THEN FirstOccurrences(s, k - 1)
  ELSE Append(FirstOccurrences(s, k - 1), s[k])

\* The records the loop of ReadShp has been through.
RecordsRead == SubSeq(senv.recs, 1, si)

FieldNames(db, f) ==
  <<db.customers[db.fields[f].customer].name,
    db.farms[db.fields[f].farm].name, db.fields[f].name>>

\* The records read that go to field f, in order.
RecordsOf(f) ==
  SelectSeq(RecordsRead, LAMBDA r : <<r.client, r.farm, r.field>> = FieldNames(sdb, f))

\* The vertices of part number part (from 0) of a shape.
PartVertices(obj, part) ==
  {LatLon(obj.padfY[v + 1], obj.padfX[v + 1]) :
     v \in PartStart(obj, part)..(PartEnd(obj, part) - 1)}

\* The polygon is the shape: part 0 its outer ring, the others its holes.
PolygonOfShape(poly, obj) ==
  /\ Range(poly.outer) = PartVertices(obj, 0)
  /\ Len(poly.inners) = obj.nParts - 1
  /\ \A h \in 1..Len(poly.inners) : Range(poly.inners[h]) = PartVertices(obj, h)

RECURSIVE PartsCount(_, _)
PartsCount(fields, k) ==
  IF k = 0 THEN 0 ELSE PartsCount(fields, k - 1) + Len(fields[k].parts)

RingsOfType(pln, type) ==
  SelectSeq(pln.kids, LAMBDA e : e.name = "LSG" /\ HasAttr(e, "A")
                                  /\ AttrValue(e, "A") = I(type))

PointsOf(lsg) == SelectSeq(lsg.kids, LAMBDA e : e.name = "PNT")

\* The ring has fewer than 4 points, or its first point is not its last.
BadRing(lsg) ==
  \/ Len(PointsOf(lsg)) < 4
  \/ <<AttrValue(PointsOf(lsg)[1], "C"), AttrValue(PointsOf(lsg)[1], "D")>>
       # <<AttrValue(PointsOf(lsg)[Len(PointsOf(lsg))], "C"),
            AttrValue(PointsOf(lsg)[Len(PointsOf(lsg))], "D")>>

BadPln(pln) ==
  \/ Len(RingsOfType(pln, LsgExterior)) # 1
  \/ \E r \in 1..Len(RingsOfType(pln, LsgExterior)) :
       BadRing(RingsOfType(pln, LsgExterior)[r])
  \/ \E r \in 1..Len(RingsOfType(pln, LsgInterior)) :
       BadRing(RingsOfType(pln, LsgInterior)[r])

ClosedRingOf4(rg) == Len(rg) >= 4 /\ rg[1] = rg[Len(rg)]

\* C17: ReadPolygon throws, and so returns no polygon, on a PLN without an
\* exterior ring, with more than one exterior LSG, with a ring of fewer
\* than 4 points or with a ring whose first point is not its last; a
\* polygon it returns has an exterior ring and only rings of at least 4
\* points that end where they start.
C17_BadPolygonsRejected ==
  \A k \in 1..Len(xpolys) :
    /\ BadPln(xpolys[k].pln) => ~xpolys[k].res.ok
    /\ xpolys[k].res.ok =>
         \A r \in 1..Len(PolygonRings(xpolys[k].res.val)) :
           ClosedRingOf4(PolygonRings(xpolys[k].res.val)[r])

InRange(p) ==
  /\ p.latitude >= -90 /\ p.latitude <= 90
  /\ p.longitude > -180 /\ p.longitude <= 180

PolygonPoints(poly) ==
  UNION {Range(PolygonRings(poly)[r]) : r \in 1..(1 + Len(poly.inners))}

FieldPoints(field) ==
  UNION {PolygonPoints(field.parts[p]) : p \in 1..Len(field.parts)}
    \cup UNION {Range(field.swaths[s].path) : s \in 1..Len(field.swaths)}

\* Every LatLon a database holds: the rings of the parts of its fields and
\* the paths of their swaths.
StoredPoints(db) == UNION {FieldPoints(db.fields[f]) : f \in 1..Len(db.fields)}

\* C19: every LatLon of a database a reader returned has its latitude in
\* [-90, 90] and its longitude in (-180, 180] degrees, so that no PNT with C
\* or D outside these ranges is behind a point of the database.
C19_LatLonInRange ==
  /\ xpc \in {"read", "written"} => \A p \in StoredPoints(xdb) : InRange(p)
  /\ spc = "read" => \A p \in StoredPoints(sdb) : InRange(p)

\* The command line is in error: it does not parse, or, help not being asked
\* for, it lacks the inset or the output, has an inset of 0.5 ft or less,
\* the output path of the input, or an extension that is not accepted.
ArgumentError(a) ==
  \/ ~a.parses
  \/ /\ ~a.help
     /\ \/ ~a.hasInset \/ ~a.hasOutput
        \/ a.insetFt <= 50
        \/ a.outputPath = a.inputPath
        \/ a.inputPath.ext \notin {".xml", ".XML", ".zip"}
        \/ a.outputPath.ext \notin {".xml", ".XML", ".wkt", ".WKT", ".zip"}

CliEnded == cpc \in {"exit", "terminated"}

\* C18: InsetXml ends with status 2 on every argument error, with status 1
\* when reading, insetting or writing failed, and with status 0 when the
\* output was written; no extension that ParseArgs accepted is refused by
\* ReadXml or writeXml as an invalid extension.
C18_ExitStatus ==
  CliEnded =>
    /\ ArgumentError(cargs) => cpc = "exit" /\ cstatus = 2
    /\ cfailed \in {"read", "inset", "write"} => cpc = "exit" /\ cstatus = 1
    /\ cwritten => cpc = "exit" /\ cstatus = 0
    /\ cfailed # "invalid filename extension"

\* What MapCornersToOriginal was called with lets its loop run.
MapRan == mpc = "returned" /\ mcall = "MapCornersToOriginal"

\* C21: in MapCornersToOriginal the scan for each simplified corner starts
\* just after the original vertex matched by the one before it, so the
\* matched indices strictly increase in the order of the simplified corners
\* and no original vertex is matched twice.
C21_CursorAdvances ==
  MapRan =>
    \A k \in 2..Len(mtrace) :
      /\ mtrace[k].i0 = mtrace[k - 1].best + 1
      /\ mtrace[k].best > mtrace[k - 1].best

\* The original vertices scanned for the k-th simplified corner: from the
\* cursor to the last vertex before the closing one.
Scanned(k) == mtrace[k].i0 .. (Len(morig) - 2)

\* i is the lowest index among the vertices scanned for the k-th simplified
\* corner that are at minimum squared distance from its point.
NearestLowest(i, k) ==
  LET corner == msimp[msc[k] + 1]
  IN /\ i \in Scanned(k)
     /\ \A j \in Scanned(k) : Dist2(morig[i + 1], corner) <= Dist2(morig[j + 1], corner)
     /\ \A j \in Scanned(k) :
          Dist2(morig[j + 1], corner) = Dist2(morig[i + 1], corner) => i <= j

\* C22: MapCornersToOriginal returns an ascending list without duplicates of
\* indices in [0, |orig| - 2], each the lowest scanned index at minimum
\* squared distance from a simplified corner point and one for every
\* simplified corner; with orig, simp or the corner list empty it returns
\* the empty list.
C22_MapResult ==
  MapRan =>
    IF morig = <<>> \/ msimp = <<>> \/ msc = <<>> THEN mout = <<>>
    ELSE /\ \A a \in 1..(Len(mout) - 1) : mout[a] < mout[a + 1]
         /\ \A a \in 1..Len(mout) : mout[a] \in 0..(Len(morig) - 2)
         /\ \A a \in 1..Len(mout) : \E k \in 1..Len(msc) : NearestLowest(mout[a], k)
         /\ \A k \in 1..Len(msc) : \E a \in 1..Len(mout) : NearestLowest(mout[a], k)

\* Three simplified corners map to two original vertices, one of them chosen
\* among several vertices at the same distance.
C22_Witness ==
  /\ MapRan /\ Len(msc) = 3 /\ Len(mout) = 2
  /\ \E k \in 1..Len(msc) : \E i, j \in Scanned(k) :
       /\ i < j /\ NearestLowest(i, k)
       /\ Dist2(morig[j + 1], msimp[msc[k] + 1]) = Dist2(morig[i + 1], msimp[msc[k] + 1])

FindRan == mpc = "returned" /\ mcall = "FindCornersSimp"

\* The edge into vertex i of the closed ring msimp (the closing edge for
\* i = 0) and the edge out of it.
Incoming(i) ==
  IF i = 0 THEN Sub(msimp[1], msimp[Len(msimp) - 1]) ELSE Sub(msimp[i + 1], msimp[i])

Outgoing(i) == Sub(msimp[i + 2], msimp[i + 1])

\* The signed angle from the incoming to the outgoing edge at vertex i is
\* at most -45 degrees.
RightTurnOf45(i) ==
  /\ cross(Incoming(i), Outgoing(i)) < 0
  /\ dot(Incoming(i), Outgoing(i)) <= -cross(Incoming(i), Outgoing(i))

\* C23: FindCornersSimp returns, in strictly increasing order, exactly the
\* indices i in [0, n-1] at which the ring turns right by 45 degrees or
\* more (cross < 0 and dot <= -cross).
C23_CornersAreRightTurns ==
  FindRan =>
    /\ \A a \in 1..(Len(mout) - 1) : mout[a] < mout[a + 1]
    /\ \A i \in 0..(Len(msimp) - 2) :
         (\E a \in 1..Len(mout) : mout[a] = i) <=> RightTurnOf45(i)
    /\ \A a \in 1..Len(mout) : mout[a] \in 0..(Len(msimp) - 2)

\* Ring r is ring r0 with every vertex moved s positions towards the front:
\* r[i] = r0[(i + s) mod n].
RotatedBy(r, r0, s) ==
  /\ Len(r) = Len(r0)
  /\ \A i \in 1..Len(r) : r[i] = r0[((i - 1 + s) % Len(r0)) + 1]

AdjustedWithShift ==
  /\ stage = "adjusted" /\ AdjustPre(ring0, corners0)
  /\ corners0 # <<>> /\ corners0[1] # 0

\* The forward option: corners.front() positions, every corner renumbered.
WentForward ==
  LET f == corners0[1]
  IN /\ RotatedBy(PopBack(ring), PopBack(ring0), f)
     /\ SubSeq(corners, 1, Len(corners0)) = Shift(corners0, -f)

\* The backward option: |ring| - corners.back() positions, the last corner
\* dropped and 0 put in front.
WentBackward ==
  LET n == Len(ring0) - 1
      b == n - corners0[Len(corners0)]
  IN /\ RotatedBy(PopBack(ring), PopBack(ring0), n - b)
     /\ SubSeq(corners, 1, Len(corners0)) = <<0>> \o Shift(PopBack(corners0), b)

\* C24: with corners[0] # 0 AdjustCorners rotates the ring by the smaller
\* of the two shifts, forward by corners.front() or backward by
\* |ring| - corners.back(); backward, the last corner is dropped and 0 is
\* prepended.
C24_ShorterRotation ==
  AdjustedWithShift =>
    LET f == corners0[1]
        b == (Len(ring0) - 1) - corners0[Len(corners0)]
    IN /\ f < b => WentForward
       /\ b < f => WentBackward
       /\ f = b => WentForward \/ WentBackward

\* A call that went backward over fewer positions than the forward option
\* has, with two corners to renumber.
C24_Witness ==
  /\ AdjustedWithShift /\ Len(corners0) = 2
  /\ (Len(ring0) - 1) - corners0[2] < corners0[1]
  /\ WentBackward /\ ~WentForward

Elems(cs) == {cs[k] : k \in 1..Len(cs)}

\* Where the corners of the input list are after the ring was moved s
\* positions towards the front.
Renumbered(cs, s, n) == {(c + n - s) % n : c \in Elems(cs)}

\* AdjustCorners only rotated by s: the unique vertices are the same in the
\* same cyclic order, every corner of the input list is a corner at the
\* same vertex, and at most `added` corners are new.
OnlyRotatedBy(s, added) ==
  LET n == Len(ring0) - 1
  IN /\ RotatedBy(PopBack(ring), PopBack(ring0), s)
     /\ Renumbered(corners0, s, n) \subseteq Elems(corners)
     /\ Cardinality(Elems(corners) \ Renumbered(corners0, s, n)) <= added

\* C25 as stated: AdjustCorners only rotates the ring, keeps every corner at
\* its vertex and adds at most one corner.
C25_OnlyRotatesAddsOne ==
  (stage = "adjusted" /\ AdjustPre(ring0, corners0)) =>
    \E s \in 0..(Len(ring0) - 2) : OnlyRotatedBy(s, 1)

\* C25 amended: AdjustCorners only rotates the ring and keeps every corner
\* at its vertex; to a list that is not empty it adds at most one corner,
\* and to the empty list it adds two, index 0 and the farthest vertex.
C25_OnlyRotates ==
  (stage = "adjusted" /\ AdjustPre(ring0, corners0)) =>
    /\ \E s \in 0..(Len(ring0) - 2) :
         OnlyRotatedBy(s, IF corners0 = <<>> THEN 2 ELSE 1)
    /\ corners0 = <<>> => ring = ring0 /\ Len(corners) = 2 /\ corners[1] = 0

\* A ring without repeated vertices was rotated, its two corners went with
\* it, and nothing was added.
C25_Witness ==
  /\ stage = "adjusted" /\ AdjustPre(ring0, corners0)
  /\ Len(corners0) = 2 /\ corners0[1] # 0 /\ ring # ring0
  /\ Cardinality(Elems(PopBack(ring0))) = Len(ring0) - 1
  /\ {ring[c + 1] : c \in Elems(corners)} = {ring0[c + 1] : c \in Elems(corners0)}

\* How many corners the list has after the rotation block of AdjustCorners:
\* the empty list became [0], the backward option drops one and adds one.
AfterRotation == IF corners0 = <<>> THEN 1 ELSE Len(corners0)

\* k is the lowest index in [1, |ring| - 2] whose vertex is farthest from
\* ring[0].
FarthestLowest(k) ==
  /\ k \in 1..(Len(ring) - 2)
  /\ \A j \in 1..(Len(ring) - 2) :
       /\ Dist2(ring[j + 1], ring[1]) <= Dist2(ring[k + 1], ring[1])
       /\ Dist2(ring[j + 1], ring[1]) = Dist2(ring[k + 1], ring[1]) => k <= j

\* C26: with fewer than two corners after the rotation AdjustCorners appends
\* exactly one index, the lowest in [1, |ring| - 2] whose vertex is at
\* maximum distance from ring[0]; with two or more it appends nothing.
C26_FarthestAppended ==
  (stage = "adjusted" /\ AdjustPre(ring0, corners0)) =>
    IF AfterRotation < 2
    THEN /\ Len(corners) = 2
         /\ FarthestLowest(corners[2])
    ELSE Len(corners) = Len(corners0)

\* One corner that is not at index 0: the ring was rotated, and two of its
\* vertices are equally far from the new ring[0], farther than the rest.
C26_Witness ==
  /\ stage = "adjusted" /\ AdjustPre(ring0, corners0)
  /\ Len(corners0) = 1 /\ corners0[1] # 0 /\ Len(corners) = 2
  /\ \E j \in 1..(Len(ring) - 2) :
       /\ j > corners[2]
       /\ Dist2(ring[j + 1], ring[1]) = Dist2(ring[corners[2] + 1], ring[1])
  /\ corners[2] > 1

\* floor(log2(t / 0.01 m)) for a tolerance of t millimetres, t >= 10.
FloorLog2(tolMm) ==
  CHOOSE k \in 0..20 : 10 * Pow2(k) <= tolMm /\ tolMm < 10 * Pow2(k + 1)

\* C27: Simplify ends after at most floor(log2(t / 0.01 m)) + 1 attempts (4
\* for 0.10 m, 10 for 10 m); attempt k is made with t / 2^(k-1), half the
\* tolerance of the attempt before, and never with less than 0.01 m.
C27_AttemptsBounded ==
  (simpOut # NoResult /\ tolerance >= 10) =>
    /\ Len(simpOut.log) <= FloorLog2(tolerance) + 1
    /\ tolerance = 100 => Len(simpOut.log) <= 4
    /\ tolerance = 10000 => Len(simpOut.log) <= 10
    /\ \A k \in 1..Len(simpOut.log) :
         /\ simpOut.log[k].halvings = k - 1
         /\ 10 * Pow2(simpOut.log[k].halvings) <= tolerance

\* A call at 10 m that made all ten attempts and one at 0.10 m that made all
\* four are both reachable; this is the first.
C27_Witness ==
  /\ simpOut # NoResult /\ tolerance = 10000
  /\ Len(simpOut.log) = 10 /\ simpOut.from = "original"

\* The numeric id an element of the document declares.
DeclaredId(e) == GetId(e.name, AttrValue(e, "A"))

\* No two CTR, no two FRM and no two PFD of the document share an id.
IdsUnique(doc) ==
  \A i, j \in 1..Len(doc.kids) :
    (/\ i < j /\ doc.kids[i].name = doc.kids[j].name
     /\ doc.kids[i].name \in {"CTR", "FRM", "PFD"})
      => DeclaredId(doc.kids[i]) # DeclaredId(doc.kids[j])

\* The reference under key of child j, if it has one, names an element of
\* that kind declared before child j.
ResolvesEarlier(doc, j, key, kind) ==
  HasAttr(doc.kids[j], key) =>
    \E i \in 1..(j - 1) :
      /\ doc.kids[i].name = kind
      /\ DeclaredId(doc.kids[i]) = GetId(kind, AttrValue(doc.kids[j], key))

RefsResolve(doc) ==
  \A j \in 1..Len(doc.kids) :
    /\ doc.kids[j].name = "FRM" => ResolvesEarlier(doc, j, "I", "CTR")
    /\ doc.kids[j].name = "PFD" =>
         ResolvesEarlier(doc, j, "E", "CTR") /\ ResolvesEarlier(doc, j, "F", "FRM")

NoRepeats(s) == \A i, j \in 1..Len(s) : i # j => s[i] # s[j]

\* C28: a document that ReadXml reads has unique ids within each kind and
\* only references to elements of the right kind declared earlier; a
\* document with a repeated id or with an undeclared or forward reference
\* ends in an error with no database.
C28_IdsAndReferences ==
  /\ xpc \in {"read", "written"} =>
       /\ IdsUnique(xdoc) /\ RefsResolve(xdoc)
       /\ NoRepeats(xdb.custDb) /\ NoRepeats(xdb.farmDb) /\ NoRepeats(xdb.fieldDb)
  /\ (xpc = "loop" /\ xi > Len(xdoc.kids)) => IdsUnique(xdoc) /\ RefsResolve(xdoc)
  /\ xpc = "error" => xdb = NoDb

\* A document whose ids are not 1, 2, ... in order was read, with a farm
\* and a field that refer to the second customer.
C28_Witness ==
  /\ xpc = "read" /\ xdb.custDb = <<5, 3>> /\ xdb.farmDb = <<7>>
  /\ xdb.farms[1].customer = 2 /\ xdb.fields[1].customer = 2

\* The point types of the PNT children of an LSG, in order.
PointTypes(lsg) == [k \in 1..Len(lsg.kids) |-> AttrValue(lsg.kids[k], "A").n]

\* The type WriteSwathPath is to give point k of n.
GuideType(k, n) ==
  IF k = 1 THEN PtGuideA ELSE IF k = n THEN PtGuideB ELSE PtGuidePoint

\* The LSG holds the points of the path, typed A, points, B.
WrittenAsGuide(lsg, path) ==
  /\ lsg.name = "LSG" /\ AttrValue(lsg, "A") = I(LsgGuidance)
  /\ Len(lsg.kids) = Len(path)
  /\ \A k \in 1..Len(path) :
       /\ lsg.kids[k].name = "PNT"
       /\ AttrValue(lsg.kids[k], "A") = I(GuideType(k, Len(path)))
       /\ AttrValue(lsg.kids[k], "C") = I(path[k].latitude)
       /\ AttrValue(lsg.kids[k], "D") = I(path[k].longitude)

\* The three ways a sequence of point types is out of order.
OutOfOrder(types) ==
  \/ Len(types) >= 1 /\ types[1] # PtGuideA
  \/ \E k \in 2..Len(types) : types[k] = PtGuideA
  \/ \E j, k \in 1..Len(types) : j < k /\ types[j] = PtGuideB

\* C29: WriteSwathPath writes a path of one or more points as GuideA,
\* GuidePoint ..., GuideB (GuideA alone for one point); ReadSwathPath reads
\* that back as the same points in the same order; and ReadSwathPath
\* rejects an LSG whose first point is not GuideA, that has a GuideA after
\* the first point, or that has a point after a GuideB.
C29_SwathPathTypes ==
  /\ (ppc \in {"written", "read back"} /\ Len(ppath) >= 1) => WrittenAsGuide(plsg, ppath)
  /\ (ppc = "read back" /\ Len(ppath) >= 1) => pread.ok /\ pread.val = ppath
  /\ (ppc = "read" /\ OutOfOrder(PointTypes(plsg))) => ~pread.ok

\* A path of three points, two of them the same, was written and read back.
C29_Witness ==
  /\ ppc = "read back" /\ Len(ppath) = MaxPathLen /\ ppath[1] = ppath[Len(ppath)]
  /\ PointTypes(plsg)[2] = PtGuidePoint
  /\ pread.ok /\ pread.val = ppath

\* The paths of the swaths of a field, in order.
SwathPathsOf(field) == [s \in 1..Len(field.swaths) |-> field.swaths[s].path]

\* Two databases hold the same customers, farms and fields by name and
\* order, the same relations between them, and the same boundary rings
\* and swath paths in every field.
SameRelational(a, b) ==
  /\ Len(a.customers) = Len(b.customers)
  /\ Len(a.farms) = Len(b.farms)
  /\ Len(a.fields) = Len(b.fields)
  /\ \A i \in 1..Len(a.customers) :
       /\ a.customers[i].name = b.customers[i].name
       /\ a.customers[i].farms = b.customers[i].farms
  /\ \A i \in 1..Len(a.farms) :
       /\ a.farms[i].name = b.farms[i].name
       /\ a.farms[i].customer = b.farms[i].customer
       /\ a.farms[i].fields = b.farms[i].fields
  /\ \A i \in 1..Len(a.fields) :
       /\ a.fields[i].name = b.fields[i].name
       /\ a.fields[i].customer = b.fields[i].customer
       /\ a.fields[i].farm = b.fields[i].farm
       /\ a.fields[i].parts = b.fields[i].parts
       /\ SwathPathsOf(a.fields[i]) = SwathPathsOf(b.fields[i])

\* Every swath of the database has a path of one point or more.
NonEmptyPaths(db) ==
  \A i \in 1..Len(db.fields) :
    \A s \in 1..Len(db.fields[i].swaths) : db.fields[i].swaths[s].path # <<>>

\* The children of an element that have the given name, in order.
Named(kids, name) == SelectSeq(kids, LAMBDA e : e.name = name)

RECURSIVE GuidesFrom(_, _)
\* The GGP of every PFD of the document from child k on, in document order.
GuidesFrom(kids, k) ==
  IF k > Len(kids) THEN <<>>
  ELSE (IF kids[k].name = "PFD" THEN Named(kids[k].kids, "GGP") ELSE <<>>)
         \o GuidesFrom(kids, k + 1)

\* CTR, FRM and PFD are numbered 1, 2, ... by position, as many as the
\* database holds.
NumberedByPosition(doc, db) ==
  /\ Len(Named(doc.kids, "CTR")) = Len(db.customers)
  /\ Len(Named(doc.kids, "FRM")) = Len(db.farms)
  /\ Len(Named(doc.kids, "PFD")) = Len(db.fields)
  /\ \A kind \in {"CTR", "FRM", "PFD"} :
       \A i \in 1..Len(Named(doc.kids, kind)) :
         AttrValue(Named(doc.kids, kind)[i], "A") = Id(kind, i)

\* Every GGP holds one GPN that carries its number, and no two GGP of the
\* document carry the same number.
GuidesPaired(doc) ==
  LET guides == GuidesFrom(doc.kids, 1)
  IN /\ \A g \in 1..Len(guides) :
          /\ GetId("GGP", AttrValue(guides[g], "A")) >= 0
          /\ Len(Named(guides[g].kids, "GPN")) = 1
          /\ GetId("GPN", AttrValue(Named(guides[g].kids, "GPN")[1], "A"))
               = GetId("GGP", AttrValue(guides[g], "A"))
     /\ \A g, h \in 1..Len(guides) :
          g # h => AttrValue(guides[g], "A") # AttrValue(guides[h], "A")

\* C30: for a database ReadXml returned whose swaths all have a path,
\* reading the document writeXml wrote succeeds and gives the same
\* customers, farms and fields by name and order, the same relations, and
\* the same boundary rings and swath paths per field; the written CTR, FRM
\* and PFD are numbered 1..k by position, and each GGP and its GPN carry one
\* number that no other GGP of the document carries.
C30_WriteReadRoundTrip ==
  /\ (xpc = "read back" /\ NonEmptyPaths(xdb)) =>
       xback.ok /\ SameRelational(xback.val, xdb)
  /\ (xpc \in {"written", "read back"} /\ NonEmptyPaths(xdb)) =>
       NumberedByPosition(xout, xdb) /\ GuidesPaired(xout)

\* A document of three fields with ids 4, 2, 3 and three guidance
\* patterns numbered 2, 2, 1 in two fields was read, written and read back.
C30_Witness ==
  /\ xpc = "read back" /\ xback.ok
  /\ xdb.fieldDb = <<4, 2, 3>> /\ xback.val.fieldDb = <<1, 2, 3>>
  /\ Len(xdb.fields[1].swaths) = 1 /\ Len(xdb.fields[3].swaths) = 2
  /\ Len(xdb.fields[3].swaths[2].path) = 3
  /\ Len(GuidesFrom(xout.kids, 1)) = 3

====
